---- MODULE Spec2Model ----
(***************************************************************************)
(* Behavioural model of the llmproxy_auth gateway: the storage handler and *)
(* its access control, the identity gates and the login endpoint, the      *)
(* provider router with its fallback resolution, the OpenAI-compatible     *)
(* chat handler, the pattern-based model router, the storage path parsers, *)
(* the Bedrock Converse translation, the transparent Bedrock proxy, the    *)
(* document fetcher with its cache, the session endpoints (refresh,        *)
(* revoke), the health check over the provider registry and the credential *)
(* strategy engine with its cache.                                         *)
(*                                                                         *)
(* Go strings are modelled as finite sequences over an alphabet of tokens: *)
(* "/", "-", "." and the digits are single characters, a word such as      *)
(* "secret" is one letter of the alphabet.  Prefix tests, trimming and     *)
(* splitting are computed on these sequences exactly as the strings        *)
(* package computes them on bytes.  Bedrock model ids and message texts    *)
(* are plain strings, sliced and concatenated byte by byte.                *)
(***************************************************************************)
EXTENDS Integers, Sequences, FiniteSets, TLC

VARIABLES
    acAllowedBuckets,   \* StorageAccessControl.AllowedBuckets
    acDeniedPrefixes,   \* StorageAccessControl.DeniedPrefixes
    instOperations,     \* StorageInstance ACL operationAllowlist (configuration)
    sReq,               \* storage request being served, None when idle
    sResp,              \* what StorageHandler.Handle answered and did
    require2FA,         \* require2FA argument of the identity gates
    sessions,           \* SessionManager: the sessions that are active
    aReq,               \* auth request being served, None when idle
    aResp,              \* what the gate / auth handler answered and did
    rConfig,            \* Router.config
    rProviders,         \* Router.providers (names of the registered providers)
    rReq,               \* routing / chat request being served, None when idle
    rResp,              \* what RouteRequest / ChatCompletions returned and did
    mrProviders,        \* ModelRouter.providers (name -> registered provider)
    mrModelMap,         \* ModelRouter.modelMap
    mReq,               \* ModelRouter call being served, None when idle
    mResp,              \* what the ModelRouter method returned
    fReq,               \* call of a stateless function or handler, None when idle
    fResp,              \* what that call returned
    dcEntries,          \* DocumentCache.entries
    dcNow,              \* time.Now(), in minutes
    dcCalls,            \* the FetchDocument calls: where each is and what it holds
    dcFetches,          \* number of HTTP fetches httpClient.Do has performed
    dcLastGet,          \* the latest DocumentCache.Get and the cache right after it
    hcRun,              \* the Router.HealthCheck in progress, None when there is none
    hcResp,             \* what that HealthCheck returned and saw
    crNow,              \* credential engine: the clock
    crCache,            \* credential cache, by instance id
    crFlight,           \* the refresh in flight of each instance, None when there is none
    crCalls,            \* the credential requests: where each is and what it got
    crRefreshes,        \* number of refreshes started, by instance id
    crLast              \* the latest finished refresh of each instance

storageVars == <<acAllowedBuckets, acDeniedPrefixes, instOperations, sReq, sResp>>
authVars    == <<require2FA, sessions, aReq, aResp>>
routerVars  == <<rConfig, rProviders, rReq, rResp>>
modelVars   == <<mrProviders, mrModelMap, mReq, mResp>>
callVars    == <<fReq, fResp>>
docVars     == <<dcEntries, dcNow, dcCalls, dcFetches, dcLastGet>>
healthVars  == <<hcRun, hcResp>>
credVars    == <<crNow, crCache, crFlight, crCalls, crRefreshes, crLast>>
vars        == <<storageVars, authVars, routerVars, modelVars, callVars, docVars, healthVars, credVars>>

\* what a step of one component leaves alone
exceptStorage == <<authVars, routerVars, modelVars, callVars, docVars, healthVars, credVars>>
exceptAuth    == <<storageVars, routerVars, modelVars, callVars, docVars, healthVars, credVars>>
exceptRouter  == <<storageVars, authVars, modelVars, callVars, docVars, healthVars, credVars>>
exceptModel   == <<storageVars, authVars, routerVars, callVars, docVars, healthVars, credVars>>
exceptCall    == <<storageVars, authVars, routerVars, modelVars, docVars, healthVars, credVars>>
exceptDoc     == <<storageVars, authVars, routerVars, modelVars, callVars, healthVars, credVars>>
exceptHealth  == <<storageVars, authVars, routerVars, modelVars, callVars, docVars, credVars>>
exceptCred    == <<storageVars, authVars, routerVars, modelVars, callVars, docVars, healthVars>>

None == [none |-> TRUE]
\* a pointer or interface that is set; None is nil
Some(v) == [val |-> v]

(***************************************************************************)
(* strings package                                                         *)
(***************************************************************************)
EmptyStr == << >>

HasPrefix(s, p) == Len(p) <= Len(s) /\ SubSeq(s, 1, Len(p)) = p

HasSuffix(s, p) == Len(p) <= Len(s) /\ SubSeq(s, Len(s) - Len(p) + 1, Len(s)) = p

\* strings.Contains
Contains(s, sub) ==
    \E i \in 1..(Len(s) - Len(sub) + 1) : SubSeq(s, i, i + Len(sub) - 1) = sub

TrimPrefix(s, p) == IF HasPrefix(s, p) THEN SubSeq(s, Len(p) + 1, Len(s)) ELSE s

\* strings.Index for a one-character separator, 1-based, 0 when absent
IndexOf(s, c) ==
    IF \E i \in 1..Len(s) : s[i] = c
    THEN CHOOSE i \in 1..Len(s) : s[i] = c /\ \A j \in 1..(i - 1) : s[j] # c
    ELSE 0

RECURSIVE SplitN(_, _, _)
SplitN(s, sep, n) ==
    IF n <= 1 \/ IndexOf(s, sep) = 0
    THEN <<s>>
    ELSE LET i == IndexOf(s, sep)
         IN  <<SubSeq(s, 1, i - 1)>> \o SplitN(SubSeq(s, i + 1, Len(s)), sep, n - 1)

RECURSIVE Join(_, _)
Join(parts, sep) ==
    IF Len(parts) = 0 THEN EmptyStr
    ELSE IF Len(parts) = 1 THEN parts[1]
    ELSE parts[1] \o <<sep>> \o Join(Tail(parts), sep)

(***************************************************************************)
(* strconv.Atoi on a string of sign and digit characters                   *)
(***************************************************************************)
Digits == {"0", "1", "2", "3", "4", "5", "6", "7", "8", "9"}

DigitVal(c) ==
    CASE c = "0" -> 0 [] c = "1" -> 1 [] c = "2" -> 2 [] c = "3" -> 3
      [] c = "4" -> 4 [] c = "5" -> 5 [] c = "6" -> 6 [] c = "7" -> 7
      [] c = "8" -> 8 [] c = "9" -> 9

RECURSIVE DigitsVal(_, _)
DigitsVal(s, acc) ==
    IF Len(s) = 0 THEN acc ELSE DigitsVal(Tail(s), acc * 10 + DigitVal(Head(s)))

Atoi(s) ==
    LET signed == Len(s) > 0 /\ Head(s) \in {"-", "+"}
        body   == IF signed THEN Tail(s) ELSE s
    IN  IF Len(body) = 0 \/ \E i \in 1..Len(body) : body[i] \notin Digits
        THEN [err |-> TRUE, val |-> 0]
        ELSE [err |-> FALSE,
              val |-> IF signed /\ Head(s) = "-"
                      THEN 0 - DigitsVal(body, 0) ELSE DigitsVal(body, 0)]

(***************************************************************************)
(* Storage: internal/handlers/storage.go and the S3 provider               *)
(***************************************************************************)
Str(w) == <<w>>

\* NewDefaultAccessControl: DeniedPrefixes "/secret/", "/private/", "/."
DefaultDeniedPrefixes ==
    << <<"/", "secret", "/">>, <<"/", "private", "/">>, <<"/", ".">> >>

\* keys of StorageHandler.providers
StorageProviders == {Str("s3")}

\* presign.maxTTL of the storage instance, in seconds
PresignMaxTTL == 86400

StorageOps == {"get", "put", "delete", "list", "head", "presign"}

ReadOnlyOps == {"get", "list", "head", "presign"}

\* the PresignOperation constants
PresignOperationGet    == Str("GetObject")
PresignOperationPut    == Str("PutObject")
PresignOperationDelete == Str("DeleteObject")
PresignOperationHead   == Str("HeadObject")

\* StorageAccessControl.CheckAccess with the "/"+key test left out
CheckAccess_KeyOnly(allowed, denied, bucket, key, operation) ==
    /\ (Len(allowed) > 0 => \E i \in 1..Len(allowed) : bucket = allowed[i])
    /\ \A i \in 1..Len(denied) : ~HasPrefix(key, denied[i])

\* StorageAccessControl.CheckAccess
CheckAccess(allowed, denied, bucket, key, operation) ==
    /\ (Len(allowed) > 0 => \E i \in 1..Len(allowed) : bucket = allowed[i])
    /\ \A i \in 1..Len(denied) :
          ~(HasPrefix(<<"/">> \o key, denied[i]) \/ HasPrefix(key, denied[i]))

\* StorageHandler.writeError: nothing was written but the error envelope
WriteError(status, message, calls) ==
    [status |-> status, message |-> message, calls |-> calls, body |-> None]

WriteOK(calls, body) ==
    [status |-> 200, message |-> "", calls |-> calls, body |-> body]

\* S3Provider.handleError: every SDK error becomes a StorageError
S3HandleError(out) ==
    CASE out = "NoSuchKey"    -> [storageErr |-> TRUE, status |-> 404, message |-> "Object not found"]
      [] out = "AccessDenied" -> [storageErr |-> TRUE, status |-> 403, message |-> "Access denied"]
      [] out = "BadRequest"   -> [storageErr |-> TRUE, status |-> 400, message |-> "Invalid request"]
      [] OTHER                -> [storageErr |-> TRUE, status |-> 500, message |-> "S3 operation failed"]

\* what a provider call returns: out = "ok", an SDK error name, or "plain"
\* for an error that is not a *StorageError (another provider implementation)
ProviderResult(out) ==
    IF out = "ok" THEN [err |-> FALSE]
    ELSE IF out = "plain" THEN [err |-> TRUE, storageErr |-> FALSE, status |-> 0, message |-> ""]
    ELSE [err |-> TRUE] @@ S3HandleError(out)

\* S3Provider.GeneratePresignedURL
GeneratePresignedURL(preq, out) ==
    IF preq.Operation \notin {PresignOperationGet, PresignOperationPut,
                              PresignOperationDelete, PresignOperationHead}
    THEN [err |-> TRUE, storageErr |-> TRUE, status |-> 400,
          message |-> "unsupported presign operation"]
    ELSE IF out # "ok"
    THEN ProviderResult(out)
    ELSE [err |-> FALSE,
          url |-> [ExpiresIn |-> preq.ExpiresIn, Operation |-> preq.Operation,
                   Bucket |-> preq.Bucket, Key |-> preq.Key]]

\* StorageHandler.handleStorageError
HandleStorageError(res, calls) ==
    IF res.storageErr
    THEN WriteError(res.status, res.message, calls)
    ELSE WriteError(500, "Storage operation failed", calls)

Call(fn, bucket, key, arg) == [fn |-> fn, bucket |-> bucket, key |-> key, arg |-> arg]

\* the operations that refuse an empty key, with "head" forgotten
KeyRequired_NoHead(operation) ==
    operation \in {Str("get"), Str("put"), Str("delete"), Str("presign")}

\* the cases of the switch that begin with `if key == ""`
KeyRequired(operation) ==
    operation \in {Str("get"), Str("put"), Str("delete"), Str("head"), Str("presign")}

\* the switch of StorageHandler.Handle, after the access check
Dispatch(req, operation, bucket, key, out) ==
    IF KeyRequired(operation) /\ key = EmptyStr
    THEN WriteError(400, "Object key is required", << >>)
    ELSE IF operation = Str("get")
    THEN LET calls == <<Call("GetObject", bucket, key, None)>>
             res   == ProviderResult(out)
         IN  IF res.err THEN HandleStorageError(res, calls) ELSE WriteOK(calls, None)
    ELSE IF operation = Str("put")
    THEN LET contentType == IF req.contentType = EmptyStr
                            THEN Str("application/octet-stream") ELSE req.contentType
             calls == <<Call("PutObject", bucket, key, [ContentType |-> contentType])>>
             res   == ProviderResult(out)
         IN  IF res.err THEN HandleStorageError(res, calls) ELSE WriteOK(calls, None)
    ELSE IF operation = Str("delete")
    THEN LET calls == <<Call("DeleteObject", bucket, key, None)>>
             res   == ProviderResult(out)
         IN  IF res.err THEN HandleStorageError(res, calls) ELSE WriteOK(calls, None)
    ELSE IF operation = Str("list")
    THEN LET parsed  == Atoi(req.query.max_keys)
             maxKeys == IF req.query.max_keys # EmptyStr /\ ~parsed.err
                        THEN parsed.val ELSE 1000
             calls   == <<Call("ListObjects", bucket, EmptyStr,
                               [Prefix |-> req.query.prefix, MaxKeys |-> maxKeys])>>
             res     == ProviderResult(out)
         IN  IF res.err THEN HandleStorageError(res, calls) ELSE WriteOK(calls, None)
    ELSE IF operation = Str("head")
    THEN LET calls == <<Call("HeadObject", bucket, key, None)>>
             res   == ProviderResult(out)
         IN  IF res.err THEN HandleStorageError(res, calls) ELSE WriteOK(calls, None)
    ELSE IF operation = Str("presign")
    THEN LET ttlStr == IF req.query.ttl = EmptyStr
                       THEN <<"3", "6", "0", "0">> ELSE req.query.ttl
             ttl    == Atoi(ttlStr)
         IN  IF ttl.err
             THEN WriteError(400, "Invalid TTL value", << >>)
             ELSE LET presignOp == IF req.query.operation # EmptyStr
                                   THEN req.query.operation ELSE PresignOperationGet
                      preq  == [Bucket |-> bucket, Key |-> key,
                                Operation |-> presignOp, ExpiresIn |-> ttl.val]
                      calls == <<Call("GeneratePresignedURL", bucket, key,
                                      [Operation |-> presignOp, ExpiresIn |-> ttl.val])>>
                      res   == GeneratePresignedURL(preq, out)
                  IN  IF res.err THEN HandleStorageError(res, calls)
                      ELSE WriteOK(calls, res.url)
    ELSE WriteError(400, "Unknown storage operation", << >>)

\* the path components StorageHandler.Handle works with
HandlePath(urlPath) ==
    LET path  == TrimPrefix(urlPath, <<"/", "-">>)
        parts == SplitN(path, "/", 5)
    IN  IF Len(parts) < 4
        THEN [ok |-> FALSE]
        ELSE LET bucketAndKey == SubSeq(parts, 4, Len(parts))
             IN  [ok |-> TRUE,
                  providerName |-> parts[1],
                  operation |-> parts[3],
                  bucket |-> IF Len(bucketAndKey) > 0 THEN bucketAndKey[1] ELSE EmptyStr,
                  key |-> IF Len(bucketAndKey) > 1
                          THEN Join(Tail(bucketAndKey), "/") ELSE EmptyStr]

\* StorageHandler.Handle
Handle(req, allowed, denied, out) ==
    LET derived == HandlePath(req.path)
    IN  IF ~derived.ok
        THEN WriteError(400, "Invalid storage path format", << >>)
        ELSE LET providerName == derived.providerName
                 operation    == derived.operation
                 bucket       == derived.bucket
                 key          == derived.key
             IN  IF providerName \notin StorageProviders
                 THEN WriteError(404, "Storage provider not found", << >>)
                 ELSE IF ~CheckAccess(allowed, denied, bucket, key, operation)
                 THEN WriteError(403, "Access denied", << >>)
                 ELSE Dispatch(req, operation, bucket, key, out)

(***************************************************************************)
(* Storage requests and configurations the handler is exercised with       *)
(***************************************************************************)
NoQuery == [ttl |-> EmptyStr, operation |-> EmptyStr, max_keys |-> EmptyStr, prefix |-> EmptyStr]

\* /-{provider}/{env}/{operation}/{bucket}[/{key}]
StoragePath(provider, operation, bucket, hasKey, key) ==
    <<"/", "-">> \o provider \o <<"/", "prod", "/">> \o operation \o <<"/">> \o bucket
        \o (IF hasKey THEN <<"/">> \o key ELSE EmptyStr)

PathProviders == {Str("s3"), Str("ftp")}

PathOperations == {Str(o) : o \in StorageOps} \cup {Str("copy")}

PathBuckets == {Str("rag-docs"), Str("scratch")}

PathKeys ==
    { EmptyStr,
      Str("a.txt"),
      <<"policies", "/", "p.pdf">>,
      <<"secret", "/", "creds.json">>,
      <<"/", "secret", "/", "creds.json">>,
      <<"docs", "/", "secret", "/", "x">>,
      <<".", "env">>,
      <<"tmp", "/">> }

TTLValues ==
    { EmptyStr, <<"0">>, <<"-", "5">>, <<"6", "0">>, <<"3", "6", "0", "0">>,
      <<"8", "6", "4", "0", "0">>, <<"8", "6", "4", "0", "1">>, <<"1", "h">> }

PresignOpValues == {EmptyStr, PresignOperationGet, PresignOperationPut, Str("CopyObject")}

QueriesFor(operation) ==
    IF operation = Str("presign")
    THEN {[NoQuery EXCEPT !.ttl = t, !.operation = o] : t \in TTLValues, o \in PresignOpValues}
    ELSE IF operation = Str("list")
    THEN {[NoQuery EXCEPT !.max_keys = m, !.prefix = x] :
             m \in {EmptyStr, <<"5", "0">>, <<"x">>}, x \in {EmptyStr, <<"docs", "/">>}}
    ELSE {NoQuery}

ContentTypesFor(operation) ==
    IF operation = Str("put") THEN {EmptyStr, Str("text/plain")} ELSE {EmptyStr}

\* requests whose path has all of provider, env, operation and bucket; the
\* fields provider..key repeat what the client put into the path
FullRequests ==
    UNION { { [path |-> StoragePath(pr, o, b, hk, k), query |-> q, contentType |-> ct,
               wellFormed |-> TRUE, provider |-> pr, operation |-> o, bucket |-> b,
               hasKey |-> hk, key |-> IF hk THEN k ELSE EmptyStr]
              : q \in QueriesFor(o), ct \in ContentTypesFor(o) }
            : pr \in PathProviders, o \in PathOperations, b \in PathBuckets,
              hk \in BOOLEAN, k \in PathKeys }

\* paths with fewer than four segments after "/-"
ShortRequests ==
    { [path |-> pth, query |-> NoQuery, contentType |-> EmptyStr,
       wellFormed |-> FALSE, provider |-> EmptyStr, operation |-> EmptyStr,
       bucket |-> EmptyStr, hasKey |-> FALSE, key |-> EmptyStr]
      : pth \in { <<"/", "-", "s3", "/", "prod", "/", "get">>,
                  <<"/", "-", "s3">>,
                  <<"/", "v1", "/", "models">> } }

StorageRequests == FullRequests \cup ShortRequests

ProviderOutcomes == {"ok", "NoSuchKey", "AccessDenied", "InternalError", "plain"}

AllowedBucketsConfigs == { << >>, <<Str("rag-docs")>> }

DeniedPrefixesConfigs ==
    { DefaultDeniedPrefixes, << <<"/", "secret", "/">> >>, << <<"tmp", "/">> >> }

StorageInit ==
    /\ acAllowedBuckets \in AllowedBucketsConfigs
    /\ acDeniedPrefixes \in DeniedPrefixesConfigs
    /\ instOperations \in {StorageOps, ReadOnlyOps}
    /\ sReq = None
    /\ sResp = None

StorageIdle ==
    /\ acAllowedBuckets = << >>
    /\ acDeniedPrefixes = DefaultDeniedPrefixes
    /\ instOperations = StorageOps
    /\ sReq = None
    /\ sResp = None

\* one request served by StorageHandler.Handle
StorageHandle ==
    /\ sReq = None
    /\ \E req \in StorageRequests, out \in ProviderOutcomes :
          /\ sReq' = req @@ [out |-> out]
          /\ sResp' = Handle(req, acAllowedBuckets, acDeniedPrefixes, out)
    /\ UNCHANGED <<acAllowedBuckets, acDeniedPrefixes, instOperations>>
    /\ UNCHANGED exceptStorage

\* the handler has returned and the response is with the client
StorageDone ==
    /\ sReq # None
    /\ sReq' = None
    /\ sResp' = None
    /\ UNCHANGED <<acAllowedBuckets, acDeniedPrefixes, instOperations>>
    /\ UNCHANGED exceptStorage

(***************************************************************************)
(* internal/auth: the API-key database, the TOTP manager and the session   *)
(* manager, as the gates and the auth handler use them                     *)
(***************************************************************************)
Bearer == "Bearer "

\* rows of the api_keys table
KeyRows ==
    { [Key |-> Str("k1"), ID |-> 1, Name |-> "alice", Email |-> "alice@example.com",
       TwoFA |-> TRUE],
      [Key |-> Str("k2"), ID |-> 2, Name |-> "bob", Email |-> "bob@example.com",
       TwoFA |-> FALSE] }

KeyRowOf(id) == CHOOSE row \in KeyRows : row.ID = id

\* the code the authenticator of a 2FA key currently shows
CurrentTOTP == Str("123456")

\* APIKeyDB.ValidateAPIKey
ValidateAPIKey(apiKey) ==
    IF \E row \in KeyRows : row.Key = apiKey
    THEN [err |-> FALSE, keyInfo |-> CHOOSE row \in KeyRows : row.Key = apiKey]
    ELSE [err |-> TRUE]

\* the zero value of the APIKey struct
ZeroAPIKey == [Key |-> EmptyStr, ID |-> 0, Name |-> "", Email |-> "", TwoFA |-> FALSE]

\* APIKeyDB.GetAPIKeyByID; lookupErr: the row is gone or the query failed.
\* With the error comes either a nil *APIKey or an APIKey left at its zero
\* value: isNil says which.
GetAPIKeyByID(id, lookupErr, isNil) ==
    IF lookupErr \/ ~\E row \in KeyRows : row.ID = id
    THEN [err |-> TRUE, isNil |-> isNil, keyInfo |-> ZeroAPIKey]
    ELSE [err |-> FALSE, isNil |-> FALSE, keyInfo |-> KeyRowOf(id)]

\* TOTPManager.IsTOTPEnabled; with an error the flag is the zero value false
IsTOTPEnabled(id, lookupErr) ==
    IF lookupErr THEN [enabled |-> FALSE, err |-> TRUE]
    ELSE [enabled |-> KeyRowOf(id).TwoFA, err |-> FALSE]

\* TOTPManager.ValidateTOTP; a key without a TOTP secret has no valid code
ValidateTOTP(id, code, totpErr) ==
    IF totpErr THEN [valid |-> FALSE, err |-> TRUE]
    ELSE [valid |-> KeyRowOf(id).TwoFA /\ code = CurrentTOTP, err |-> FALSE]

\* SessionManager.ValidateSessionToken
ValidateSessionToken(sess, token) ==
    IF \E x \in sess : x.Token = token
    THEN LET session == CHOOSE x \in sess : x.Token = token
         IN  [err |-> FALSE, session |-> session, apiKeyID |-> session.APIKeyID]
    ELSE [err |-> TRUE]

(***************************************************************************)
(* Identity gates: SessionTokenAuth, HybridAuth, EnhancedAPIKeyAuth        *)
(***************************************************************************)
\* c.JSON(status, ...) ; c.Abort()
Reject(status, error, trace, log) ==
    [status |-> status, error |-> error, aborted |-> TRUE, handlerRan |-> FALSE,
     panicked |-> FALSE, ctx |-> << >>, trace |-> trace, log |-> log]

\* c.Next() with the values c.Set has stored so far
Admit(ctx, trace, log) ==
    [status |-> 200, error |-> "", aborted |-> FALSE, handlerRan |-> TRUE,
     panicked |-> FALSE, ctx |-> ctx, trace |-> trace, log |-> log]

\* keyInfo.Name on a nil keyInfo: the goroutine panics before c.Next()
Panic(trace, log) ==
    [status |-> 500, error |-> "panic", aborted |-> TRUE, handlerRan |-> FALSE,
     panicked |-> TRUE, ctx |-> << >>, trace |-> trace, log |-> log]

\* X-Session-Token, else the value of Authorization: Bearer
SessionTokenOf(req) ==
    IF req.xSession # EmptyStr THEN req.xSession
    ELSE IF HasPrefix(req.authorization, <<Bearer>>)
         THEN TrimPrefix(req.authorization, <<Bearer>>) ELSE EmptyStr

\* SessionTokenAuth
SessionTokenAuth(req, sess, env) ==
    LET sessionToken == SessionTokenOf(req)
    IN  IF sessionToken = EmptyStr
        THEN Reject(401, "Missing session token", << >>, << >>)
        ELSE LET v == ValidateSessionToken(sess, sessionToken)
             IN  IF v.err
                 THEN Reject(401, "Invalid or expired session token",
                             <<"ValidateSessionToken">>, <<"session_auth_failed">>)
                 ELSE LET k == GetAPIKeyByID(v.apiKeyID, env.keyLookupErr, env.keyInfoNil)
                      IN  IF k.err
                          THEN Reject(401, "Session token valid but API key not found",
                                      <<"ValidateSessionToken", "GetAPIKeyByID">>, << >>)
                          ELSE Admit([user |-> k.keyInfo.Name,
                                      user_email |-> k.keyInfo.Email,
                                      api_key_id |-> v.apiKeyID,
                                      session_id |-> v.session.ID,
                                      auth_method |-> "session_token"],
                                     <<"ValidateSessionToken", "GetAPIKeyByID">>,
                                     <<"session_auth_success">>)

\* HybridAuth
HybridAuth(req, sess, r2fa, env) ==
    LET sessionToken == SessionTokenOf(req)
        v   == ValidateSessionToken(sess, sessionToken)
        pre == IF sessionToken # EmptyStr THEN <<"ValidateSessionToken">> ELSE << >>
    IN  IF sessionToken # EmptyStr /\ ~v.err
        THEN LET k == GetAPIKeyByID(v.apiKeyID, env.keyLookupErr, env.keyInfoNil)
             IN  IF k.err /\ k.isNil
                 THEN Panic(<<"ValidateSessionToken", "GetAPIKeyByID">>, << >>)
                 ELSE Admit([user |-> k.keyInfo.Name,
                             user_email |-> k.keyInfo.Email,
                             api_key_id |-> v.apiKeyID,
                             session_id |-> v.session.ID,
                             auth_method |-> "session_token"],
                            <<"ValidateSessionToken", "GetAPIKeyByID">>, << >>)
        ELSE IF req.xApiKey = EmptyStr
        THEN Reject(401, "Authentication required", pre, << >>)
        ELSE LET k  == ValidateAPIKey(req.xApiKey)
                 t1 == pre \o <<"ValidateAPIKey">>
             IN  IF k.err
                 THEN Reject(401, "Invalid API key", t1, << >>)
                 ELSE LET e   == IsTOTPEnabled(k.keyInfo.ID, env.totpLookupErr)
                          t2  == t1 \o <<"IsTOTPEnabled">>
                          ctx == [user |-> k.keyInfo.Name,
                                  user_email |-> k.keyInfo.Email,
                                  api_key_id |-> k.keyInfo.ID,
                                  auth_method |-> "api_key_totp"]
                      IN  IF e.enabled \/ r2fa
                          THEN IF req.xTotp = EmptyStr
                               THEN Reject(401, "2FA required", t2, << >>)
                               ELSE LET t == ValidateTOTP(k.keyInfo.ID, req.xTotp, env.totpErr)
                                    IN  IF t.err \/ ~t.valid
                                        THEN Reject(401, "Invalid TOTP code",
                                                    t2 \o <<"ValidateTOTP">>, << >>)
                                        ELSE Admit(ctx, t2 \o <<"ValidateTOTP">>, << >>)
                          ELSE Admit(ctx, t2, << >>)

\* EnhancedAPIKeyAuth
EnhancedAPIKeyAuth(req, r2fa, env) ==
    LET apiKey == IF req.xApiKey # EmptyStr THEN req.xApiKey
                  ELSE IF HasPrefix(req.authorization, <<Bearer>>)
                       THEN TrimPrefix(req.authorization, <<Bearer>>) ELSE EmptyStr
    IN  IF apiKey = EmptyStr
        THEN Reject(401, "Missing API key", << >>, << >>)
        ELSE LET k == ValidateAPIKey(apiKey)
             IN  IF k.err
                 THEN Reject(401, "Invalid API key", <<"ValidateAPIKey">>, <<"auth_failed">>)
                 ELSE LET e   == IsTOTPEnabled(k.keyInfo.ID, env.totpLookupErr)
                          t2  == <<"ValidateAPIKey", "IsTOTPEnabled">>
                          ctx == [user |-> k.keyInfo.Name,
                                  user_email |-> k.keyInfo.Email,
                                  api_key_id |-> k.keyInfo.ID,
                                  auth_method |-> "api_key_db",
                                  twofa_enabled |-> e.enabled]
                          log == <<"auth_success", "request_completed">>
                      IN  IF e.enabled \/ r2fa
                          THEN IF req.xTotp = EmptyStr
                               THEN Reject(401, "2FA required", t2, << >>)
                               ELSE LET t == ValidateTOTP(k.keyInfo.ID, req.xTotp, env.totpErr)
                                    IN  IF t.err \/ ~t.valid
                                        THEN Reject(401, "Invalid TOTP code",
                                                    t2 \o <<"ValidateTOTP">>, <<"2fa_failed">>)
                                        ELSE Admit(ctx, t2 \o <<"ValidateTOTP">>, log)
                          ELSE Admit(ctx, t2, log)

(***************************************************************************)
(* AuthHandler.Login                                                       *)
(***************************************************************************)
\* bound on the sessions that exist at one time
MaxSessions == 2

\* the tokens GenerateSessionToken can hand out, with the session id of each
DigitStr == <<"1", "2", "3", "4", "5", "6", "7", "8", "9">>

TokenPool == { <<"tok", DigitStr[i]>> : i \in 1..(MaxSessions + 1) }

TokensOf(sess) == {x.Token : x \in sess}

NewSession(sess, apiKeyID) ==
    LET free  == TokenPool \ TokensOf(sess)
        token == CHOOSE t \in free : \A u \in free : DigitVal(t[2]) <= DigitVal(u[2])
    IN  [Token |-> token, ID |-> DigitVal(token[2]), APIKeyID |-> apiKeyID]

\* SessionManager.GenerateSessionToken: the new token and the sessions after it
GenerateSessionToken(sess, apiKeyID, genErr) ==
    IF genErr
    THEN [err |-> TRUE, token |-> EmptyStr, sessions |-> sess]
    ELSE LET n == NewSession(sess, apiKeyID)
         IN  [err |-> FALSE, token |-> n.Token, sessions |-> sess \cup {n}]

\* what an AuthHandler endpoint answered, called and left in the session table
AuthResult(status, error, token, trace, log, sess) ==
    [status |-> status, error |-> error, token |-> token, trace |-> trace,
     log |-> log, sessions |-> sess]

\* `if err != nil || !valid` of Login, with the error ignored
LoginTOTPRejected_IgnoreErr(t) == ~t.valid /\ ~t.err

\* `if err != nil || !valid` of Login
LoginTOTPRejected(t) == t.err \/ ~t.valid

\* AuthHandler.Login
Login(req, sess, env) ==
    IF req.apiKey = EmptyStr \/ req.totpCode = EmptyStr
    THEN AuthResult(400, "Invalid request", EmptyStr, << >>, << >>, sess)
    ELSE LET k == ValidateAPIKey(req.apiKey)
         IN  IF k.err
             THEN AuthResult(401, "Invalid API key", EmptyStr, <<"ValidateAPIKey">>,
                             <<"login_failed_invalid_key">>, sess)
             ELSE LET t  == ValidateTOTP(k.keyInfo.ID, req.totpCode, env.totpErr)
                      t2 == <<"ValidateAPIKey", "ValidateTOTP">>
                  IN  IF LoginTOTPRejected(t)
                      THEN AuthResult(401, "Invalid TOTP code", EmptyStr, t2,
                                      <<"login_failed_invalid_totp">>, sess)
                      ELSE LET g == GenerateSessionToken(sess, k.keyInfo.ID, env.genErr)
                               t3 == t2 \o <<"GenerateSessionToken">>
                           IN  IF g.err
                               THEN AuthResult(500, "Failed to create session", EmptyStr,
                                               t3, << >>, g.sessions)
                               ELSE AuthResult(200, "", g.token, t3,
                                               <<"login_success">>, g.sessions)

(***************************************************************************)
(* AuthHandler.Refresh, AuthHandler.RevokeSession                          *)
(***************************************************************************)
\* SessionManager.RevokeSessionToken: a failed revocation leaves the session
RevokeSessionToken(sess, token, revokeErr) ==
    IF revokeErr THEN [err |-> TRUE, sessions |-> sess]
    ELSE [err |-> FALSE, sessions |-> {x \in sess : x.Token # token}]

\* GenerateSessionToken after a revocation: tokens are random, so the new one
\* differs from the revoked one as well as from those of the live sessions
GenerateSessionTokenAfter(sess, revoked, apiKeyID, genErr) ==
    LET g == GenerateSessionToken(sess \cup {revoked}, apiKeyID, genErr)
    IN  [g EXCEPT !.sessions = (g.sessions \ {revoked}) \cup (sess \cap {revoked})]

\* AuthHandler.Refresh
Refresh(req, sess, env) ==
    LET sessionToken == SessionTokenOf(req)
    IN  IF sessionToken = EmptyStr
        THEN AuthResult(401, "Missing session token", EmptyStr, << >>, << >>, sess)
        ELSE LET v == ValidateSessionToken(sess, sessionToken)
             IN  IF v.err
                 THEN AuthResult(401, "Invalid or expired session token", EmptyStr,
                                 <<"ValidateSessionToken">>, << >>, sess)
                 ELSE LET rv == RevokeSessionToken(sess, sessionToken, env.revokeErr)
                          g  == GenerateSessionTokenAfter(rv.sessions, v.session,
                                                          v.apiKeyID, env.genErr)
                          t3 == <<"ValidateSessionToken", "RevokeSessionToken",
                                  "GenerateSessionToken">>
                      IN  IF g.err
                          THEN AuthResult(500, "Failed to refresh session", EmptyStr,
                                          t3, << >>, g.sessions)
                          ELSE AuthResult(200, "", g.token, t3,
                                          <<"session_refreshed">>, g.sessions)

\* AuthHandler.RevokeSession
RevokeSession(req, sessionID, sess) ==
    LET v == ValidateSessionToken(sess, SessionTokenOf(req))
    IN  IF v.err
        THEN AuthResult(401, "Invalid session token", EmptyStr,
                        <<"ValidateSessionToken">>, << >>, sess)
        ELSE AuthResult(200, "Session revoked successfully", EmptyStr,
                        <<"ValidateSessionToken">>, << >>, sess)

(***************************************************************************)
(* Auth requests and the actions that serve them                           *)
(***************************************************************************)
GateEnvs ==
    { e \in [keyLookupErr : BOOLEAN, keyInfoNil : BOOLEAN,
             totpLookupErr : BOOLEAN, totpErr : BOOLEAN] :
        e.keyInfoNil => e.keyLookupErr }

LoginEnvs == [totpErr : BOOLEAN, genErr : BOOLEAN]

FirstToken == <<"tok", "1">>

GateRequests ==
    [xSession      : {EmptyStr, FirstToken, Str("bogus")},
     authorization : {EmptyStr, <<Bearer>> \o FirstToken, <<Bearer>> \o Str("k1"),
                      <<"Basic ", "abc">>},
     xApiKey       : {EmptyStr, Str("k1"), Str("k2"), Str("bad")},
     xTotp         : {EmptyStr, CurrentTOTP, Str("000000")}]

LoginRequests ==
    [apiKey   : {EmptyStr, Str("k1"), Str("k2"), Str("bad")},
     totpCode : {EmptyStr, CurrentTOTP, Str("000000")}]

RefreshEnvs == [revokeErr : BOOLEAN, genErr : BOOLEAN]

SessionRequests ==
    [xSession      : {EmptyStr} \cup TokenPool \cup {Str("bogus")},
     authorization : {EmptyStr, <<Bearer>> \o FirstToken, <<"Basic ", "abc">>}]

AuthInit ==
    /\ require2FA \in BOOLEAN
    /\ sessions = {}
    /\ aReq = None
    /\ aResp = None

AuthIdle ==
    /\ require2FA = FALSE
    /\ sessions = {}
    /\ aReq = None
    /\ aResp = None

\* a request passes through the SessionTokenAuth middleware
GateSessionTokenAuth ==
    /\ aReq = None
    /\ \E req \in GateRequests, env \in GateEnvs :
          /\ aReq' = [handler |-> "SessionTokenAuth", req |-> req, env |-> env]
          /\ aResp' = SessionTokenAuth(req, sessions, env)
    /\ UNCHANGED <<require2FA, sessions>>
    /\ UNCHANGED exceptAuth

\* a request passes through the HybridAuth middleware
GateHybridAuth ==
    /\ aReq = None
    /\ \E req \in GateRequests, env \in GateEnvs :
          /\ aReq' = [handler |-> "HybridAuth", req |-> req, env |-> env]
          /\ aResp' = HybridAuth(req, sessions, require2FA, env)
    /\ UNCHANGED <<require2FA, sessions>>
    /\ UNCHANGED exceptAuth

\* a request passes through the EnhancedAPIKeyAuth middleware
GateEnhancedAPIKeyAuth ==
    /\ aReq = None
    /\ \E req \in GateRequests, env \in GateEnvs :
          /\ aReq' = [handler |-> "EnhancedAPIKeyAuth", req |-> req, env |-> env]
          /\ aResp' = EnhancedAPIKeyAuth(req, require2FA, env)
    /\ UNCHANGED <<require2FA, sessions>>
    /\ UNCHANGED exceptAuth

\* POST /auth/login
AuthLogin ==
    /\ aReq = None
    /\ Cardinality(sessions) < MaxSessions
    /\ \E req \in LoginRequests, env \in LoginEnvs :
          LET res == Login(req, sessions, env)
          IN  /\ aReq' = [handler |-> "Login", req |-> req, env |-> env,
                          before |-> sessions]
              /\ aResp' = res
              /\ sessions' = res.sessions
    /\ UNCHANGED require2FA
    /\ UNCHANGED exceptAuth

\* POST /auth/refresh
AuthRefresh ==
    /\ aReq = None
    /\ Cardinality(sessions) < MaxSessions
    /\ \E req \in SessionRequests, env \in RefreshEnvs :
          LET res == Refresh(req, sessions, env)
          IN  /\ aReq' = [handler |-> "Refresh", req |-> req, env |-> env,
                          before |-> sessions]
              /\ aResp' = res
              /\ sessions' = res.sessions
    /\ UNCHANGED require2FA
    /\ UNCHANGED exceptAuth

\* DELETE /auth/sessions/:id
AuthRevokeSession ==
    /\ aReq = None
    /\ \E req \in SessionRequests, id \in 1..(MaxSessions + 1) :
          LET res == RevokeSession(req, id, sessions)
          IN  /\ aReq' = [handler |-> "RevokeSession", req |-> req, id |-> id,
                          before |-> sessions]
              /\ aResp' = res
              /\ sessions' = res.sessions
    /\ UNCHANGED require2FA
    /\ UNCHANGED exceptAuth

\* a session reaches its expiry time
ExpireSession ==
    /\ aReq = None
    /\ \E x \in sessions : sessions' = sessions \ {x}
    /\ UNCHANGED <<require2FA, aReq, aResp>>
    /\ UNCHANGED exceptAuth

\* the middleware chain / handler has returned
AuthDone ==
    /\ aReq # None
    /\ aReq' = None
    /\ aResp' = None
    /\ UNCHANGED <<require2FA, sessions>>
    /\ UNCHANGED exceptAuth

(***************************************************************************)
(* Router: RouteRequest, getProviderForModel, tryFallbackProviders         *)
(***************************************************************************)
ProviderNames == {"openai", "azure", "bedrock"}

\* Config.ModelMappings: default provider and per-provider remote model id
ModelMappings ==
    [ m \in {"gpt-4", "claude-3-sonnet"} |->
        IF m = "gpt-4"
        THEN [DefaultProvider |-> "openai",
              Providers |-> [p \in {"openai", "azure"} |->
                                IF p = "openai" THEN "gpt-4" ELSE "gpt-4-deployment"]]
        ELSE [DefaultProvider |-> "bedrock",
              Providers |-> [p \in {"bedrock"} |->
                                "anthropic.claude-3-sonnet-20240229-v1:0"]] ]

\* Config.GetDefaultProvider
GetDefaultProvider(model) ==
    IF model \in DOMAIN ModelMappings THEN ModelMappings[model].DefaultProvider ELSE ""

\* Config.IsProviderEnabled
IsProviderEnabled(cfg, name) == name \in cfg.enabled

\* Config.GetProviderModelInfo
GetProviderModelInfo(model, name) ==
    IF model \in DOMAIN ModelMappings /\ name \in DOMAIN ModelMappings[model].Providers
    THEN [err |-> FALSE, modelInfo |-> [Model |-> ModelMappings[model].Providers[name]]]
    ELSE [err |-> TRUE]

\* Config.GetFallbackProviders
GetFallbackProviders(cfg) == cfg.fallback

RouteErr(error, tried) ==
    [err |-> TRUE, error |-> error, provider |-> "", modelInfo |-> None, tried |-> tried]

RouteOK(name, modelInfo, tried) ==
    [err |-> FALSE, error |-> "", provider |-> name, modelInfo |-> modelInfo, tried |-> tried]

\* Router.getProviderForModel without the lookup in r.providers
GetProviderForModel_NoRegistry(cfg, provs, model, name) ==
    IF ~IsProviderEnabled(cfg, name) THEN RouteErr("disabled", <<name>>)
    ELSE LET info == GetProviderModelInfo(model, name)
         IN  IF info.err THEN RouteErr("model not available", <<name>>)
             ELSE RouteOK(name, info.modelInfo, <<name>>)

\* Router.getProviderForModel
GetProviderForModel(cfg, provs, model, name) ==
    IF ~IsProviderEnabled(cfg, name) THEN RouteErr("disabled", <<name>>)
    ELSE IF name \notin provs THEN RouteErr("not registered", <<name>>)
    ELSE LET info == GetProviderModelInfo(model, name)
         IN  IF info.err THEN RouteErr("model not available", <<name>>)
             ELSE RouteOK(name, info.modelInfo, <<name>>)

\* `if providerName == excludeProvider { continue }` removed
SkipProvider_Never(name, exclude) == FALSE

\* `if providerName == excludeProvider { continue }`
SkipProvider(name, exclude) == name = exclude

\* `if attempts >= maxAttempts { break }`
AttemptsExhausted(attempts, maxAttempts) == attempts >= maxAttempts

\* the loop of tryFallbackProviders from position i of the fallback list
RECURSIVE FallbackLoop(_, _, _, _, _, _, _)
FallbackLoop(cfg, provs, model, exclude, i, attempts, tried) ==
    LET list == GetFallbackProviders(cfg)
    IN  IF i > Len(list)
        THEN RouteErr("all fallback providers exhausted", tried)
        ELSE IF SkipProvider(list[i], exclude)
        THEN FallbackLoop(cfg, provs, model, exclude, i + 1, attempts, tried)
        ELSE IF AttemptsExhausted(attempts, cfg.maxAttempts)
        THEN RouteErr("all fallback providers exhausted", tried)
        ELSE LET r == GetProviderForModel(cfg, provs, model, list[i])
             IN  IF ~r.err
                 THEN RouteOK(r.provider, r.modelInfo, Append(tried, list[i]))
                 ELSE FallbackLoop(cfg, provs, model, exclude, i + 1, attempts + 1,
                                   Append(tried, list[i]))

\* Router.tryFallbackProviders; tried: the candidates handed to getProviderForModel
TryFallbackProviders(cfg, provs, model, exclude) ==
    FallbackLoop(cfg, provs, model, exclude, 1, 0, << >>)

\* Router.RouteRequest; fallbackCalled: tryFallbackProviders ran, with
\* excludeProvider = exclude, and handed the candidates in tried to
\* getProviderForModel
RouteRequest(cfg, provs, model, preferred) ==
    LET pref == GetProviderForModel(cfg, provs, model, preferred)
        def  == GetDefaultProvider(model)
        prim == GetProviderForModel(cfg, provs, model, def)
        direct(r) == [r EXCEPT !.tried = << >>] @@ [exclude |-> "", fallbackCalled |-> FALSE]
    IN  IF preferred # "" /\ ~pref.err
        THEN direct(pref)
        ELSE IF def = ""
        THEN direct(RouteErr("no provider found", << >>))
        ELSE IF ~prim.err
        THEN direct(prim)
        ELSE IF ~cfg.autoFallback \/ ~cfg.fallbackEnabled
        THEN direct(RouteErr("provider failed", << >>))
        ELSE TryFallbackProviders(cfg, provs, model, def)
                 @@ [exclude |-> def, fallbackCalled |-> TRUE]

(***************************************************************************)
(* Providers' Invoke and OpenAIHandler.ChatCompletions                     *)
(***************************************************************************)
\* what the upstream of a provider does with a request: an HTTP status, or
\* "neterr" when httpClient.Do fails
UpstreamOutcomes == {"200", "429", "503", "neterr"}

StatusOf(up) ==
    CASE up = "200" -> 200 [] up = "403" -> 403 [] up = "429" -> 429 [] up = "503" -> 503

\* a *ProviderError with its StatusCode, or the response
InvokeErr(status, sent) == [err |-> TRUE, StatusCode |-> status, sent |-> sent]

InvokeOK(sent) == [err |-> FALSE, StatusCode |-> 200, sent |-> sent]

\* OpenAIProvider.Invoke; sent: the request reached the upstream
OpenAIInvoke(up) ==
    IF up = "neterr" THEN InvokeErr(503, TRUE)
    ELSE IF StatusOf(up) # 200 THEN InvokeErr(StatusOf(up), TRUE)
    ELSE InvokeOK(TRUE)

\* extractDeploymentID
ExtractDeploymentID(path) == ""

\* AzureProvider.Invoke
AzureInvoke(path, up) ==
    IF ExtractDeploymentID(path) = "" THEN InvokeErr(400, FALSE)
    ELSE IF up = "neterr" THEN InvokeErr(503, TRUE)
    ELSE IF StatusOf(up) # 200 THEN InvokeErr(StatusOf(up), TRUE)
    ELSE InvokeOK(TRUE)

\* BedrockProvider.Invoke: a failed SignRequest or httpClient.Do gives a
\* ProviderError without StatusCode, an upstream status >= 400 goes through
\* handleErrorResponse; signErr: signer.SignRequest returns an error
BedrockInvoke(signErr, up) ==
    IF signErr THEN InvokeErr(0, FALSE)
    ELSE IF up = "neterr" THEN InvokeErr(0, TRUE)
    ELSE IF StatusOf(up) >= 400 THEN InvokeErr(StatusOf(up), TRUE)
    ELSE InvokeOK(TRUE)

\* provider.Invoke
Invoke(name, path, signErr, up) ==
    CASE name = "openai"  -> OpenAIInvoke(up)
      [] name = "azure"   -> AzureInvoke(path, up)
      [] name = "bedrock" -> BedrockInvoke(signErr, up)

\* OpenAIHandler.handleProviderError
HandleProviderError(e) == IF e.StatusCode = 0 THEN 500 ELSE e.StatusCode

\* the answer of the chat handler; invoked: the providers whose Invoke was
\* called, sent: a request reached an upstream
ChatResult(status, code, route, invoked) ==
    [status |-> status, code |-> code, route |-> route, invoked |-> invoked,
     sent |-> FALSE]

BedrockModelIDPairs ==
    { <<"claude-3-opus", "anthropic.claude-3-opus-20240229-v1:0">>,
      <<"claude-3-opus-20240229", "anthropic.claude-3-opus-20240229-v1:0">>,
      <<"claude-3-sonnet", "anthropic.claude-3-sonnet-20240229-v1:0">>,
      <<"claude-3-sonnet-20240229", "anthropic.claude-3-sonnet-20240229-v1:0">>,
      <<"claude-3-haiku", "anthropic.claude-3-haiku-20240307-v1:0">>,
      <<"claude-3-haiku-20240307", "anthropic.claude-3-haiku-20240307-v1:0">>,
      <<"claude-3-5-sonnet", "anthropic.claude-3-5-sonnet-20240620-v1:0">>,
      <<"claude-3-5-sonnet-20240620", "anthropic.claude-3-5-sonnet-20240620-v1:0">>,
      <<"amazon-titan-text-express", "amazon.titan-text-express-v1">>,
      <<"amazon-titan-text-lite", "amazon.titan-text-lite-v1">>,
      <<"amazon-titan-embed-text", "amazon.titan-embed-text-v1">>,
      <<"llama2-13b", "meta.llama2-13b-chat-v1">>,
      <<"llama2-70b", "meta.llama2-70b-chat-v1">>,
      <<"mistral-7b", "mistral.mistral-7b-instruct-v0:2">>,
      <<"mistral-8x7b", "mistral.mixtral-8x7b-instruct-v0:1">> }

\* BedrockModelIDMap: friendly name -> Bedrock model id
BedrockModelIDMap ==
    [ n \in { pair[1] : pair \in BedrockModelIDPairs } |->
        (CHOOSE pair \in BedrockModelIDPairs : pair[1] = n)[2] ]

\* friendlyName[0:1], the string of the first byte
FirstByte(friendlyName) == SubSeq(friendlyName, 1, 1)

\* GetBedrockModelID
GetBedrockModelID(friendlyName) ==
    IF Len(friendlyName) > 0
       /\ \/ FirstByte(friendlyName) = "anthropic."
          \/ FirstByte(friendlyName) = "amazon."
          \/ FirstByte(friendlyName) = "meta."
          \/ FirstByte(friendlyName) = "mistral."
    THEN [modelID |-> friendlyName, exists |-> TRUE]
    ELSE IF friendlyName \in DOMAIN BedrockModelIDMap
    THEN [modelID |-> BedrockModelIDMap[friendlyName], exists |-> TRUE]
    ELSE [modelID |-> "", exists |-> FALSE]

\* TranslateOpenAIToConverseAPI: the error and the path of the provider request
TranslateOpenAIToConverseAPI(model, stream) ==
    LET found == GetBedrockModelID(model)
    IN  IF ~found.exists
        THEN [err |-> TRUE, path |-> "", bedrockModelID |-> ""]
        ELSE [err |-> FALSE,
              path |-> "/model/" \o found.modelID
                       \o (IF stream THEN "/converse-stream" ELSE "/converse"),
              bedrockModelID |-> found.modelID]

\* OpenAIHandler.handleNonStreamingRequest; upstream: provider -> outcome,
\* bodyParses: the upstream's 200 body unmarshals
HandleNonStreamingRequest(req, route, upstream) ==
    LET name == route.provider
        path == IF name = "bedrock" THEN "/model/converse" ELSE "/chat/completions"
        res  == Invoke(name, path, req.signErr, upstream[name])
    IN  IF name = "bedrock" /\ TranslateOpenAIToConverseAPI(req.model, req.stream).err
        THEN ChatResult(400, "translation_failed", route, << >>)
        ELSE IF res.err
        THEN [ChatResult(HandleProviderError(res), "provider_error", route, <<name>>)
                EXCEPT !.sent = res.sent]
        ELSE IF ~req.bodyParses
        THEN [ChatResult(500, "response_parse_error", route, <<name>>) EXCEPT !.sent = TRUE]
        ELSE [ChatResult(200, "", route, <<name>>) EXCEPT !.sent = TRUE]

\* OpenAIHandler.ChatCompletions
ChatCompletions(req, cfg, provs, upstream) ==
    IF ~req.validJSON
    THEN ChatResult(400, "invalid_json", None, << >>)
    ELSE IF req.model = ""
    THEN ChatResult(400, "missing_model", None, << >>)
    ELSE LET route == RouteRequest(cfg, provs, req.model, "")
         IN  IF route.err
             THEN ChatResult(400, "model_not_found", route, << >>)
             ELSE IF req.stream
             THEN ChatResult(501, "streaming_not_implemented", route, << >>)
             ELSE HandleNonStreamingRequest(req, route, upstream)

(***************************************************************************)
(* Router configurations, requests and actions                             *)
(***************************************************************************)
\* bound on the length of routing.fallback.providers
MaxFallbackLen == 3

\* bound on routing.fallback.maxAttempts
MaxAttemptsBound == 3

RECURSIVE SeqsUpTo(_, _)
SeqsUpTo(S, n) ==
    IF n = 0 THEN { << >> }
    ELSE LET shorter == SeqsUpTo(S, n - 1)
         IN  shorter \cup { Append(q, x) : q \in shorter, x \in S }

RouterConfigs ==
    [enabled : SUBSET ProviderNames,
     fallback : SeqsUpTo(ProviderNames, MaxFallbackLen),
     maxAttempts : 0..MaxAttemptsBound,
     autoFallback : BOOLEAN,
     fallbackEnabled : BOOLEAN]

\* configurations of the chat handler runs: every provider enabled
ChatConfigs ==
    [enabled : {ProviderNames},
     fallback : { << >>, <<"azure">>, <<"openai", "azure">>, <<"bedrock", "openai">> },
     maxAttempts : {0, MaxAttemptsBound},
     autoFallback : BOOLEAN,
     fallbackEnabled : BOOLEAN]

RouteModels == {"gpt-4", "claude-3-sonnet", "llama-unknown"}

RouteRequests == [model : RouteModels, preferred : ProviderNames \cup {""}]

ChatRequests ==
    [model : RouteModels \cup {""}, stream : BOOLEAN, validJSON : BOOLEAN,
     bodyParses : BOOLEAN, signErr : BOOLEAN,
     upstream : [ProviderNames -> UpstreamOutcomes]]

RouterInit ==
    /\ rConfig \in RouterConfigs
    /\ rProviders = ProviderNames
    /\ rReq = None
    /\ rResp = None

ChatInit ==
    /\ rConfig \in ChatConfigs
    /\ rProviders = ProviderNames
    /\ rReq = None
    /\ rResp = None

RouterIdle ==
    /\ rConfig = [enabled |-> ProviderNames, fallback |-> << >>, maxAttempts |-> 0,
                  autoFallback |-> FALSE, fallbackEnabled |-> FALSE]
    /\ rProviders = ProviderNames
    /\ rReq = None
    /\ rResp = None

\* Router.RegisterProvider
RegisterProvider ==
    /\ rReq = None
    /\ \E name \in ProviderNames : rProviders' = rProviders \cup {name}
    /\ UNCHANGED <<rConfig, rReq, rResp>>
    /\ UNCHANGED exceptRouter

\* Router.UnregisterProvider
UnregisterProvider ==
    /\ rReq = None
    /\ \E name \in ProviderNames : rProviders' = rProviders \ {name}
    /\ UNCHANGED <<rConfig, rReq, rResp>>
    /\ UNCHANGED exceptRouter

\* one call of Router.RouteRequest
DoRouteRequest ==
    /\ rReq = None
    /\ \E req \in RouteRequests :
          /\ rReq' = [handler |-> "RouteRequest", req |-> req]
          /\ rResp' = RouteRequest(rConfig, rProviders, req.model, req.preferred)
    /\ UNCHANGED <<rConfig, rProviders>>
    /\ UNCHANGED exceptRouter

\* POST /v1/chat/completions
DoChatCompletions ==
    /\ rReq = None
    /\ \E req \in ChatRequests :
          /\ rReq' = [handler |-> "ChatCompletions", req |-> req]
          /\ rResp' = ChatCompletions(req, rConfig, rProviders, req.upstream)
    /\ UNCHANGED <<rConfig, rProviders>>
    /\ UNCHANGED exceptRouter

\* the call has returned
RouterDone ==
    /\ rReq # None
    /\ rReq' = None
    /\ rResp' = None
    /\ UNCHANGED <<rConfig, rProviders>>
    /\ UNCHANGED exceptRouter

(***************************************************************************)
(* Router.HealthCheck while the registry changes                           *)
(***************************************************************************)
\* Router has no mutex: RegisterProvider and UnregisterProvider write the
\* providers map in place and may run between two iterations of the range
\* loop of HealthCheck.
HealthInit ==
    /\ hcRun = None
    /\ hcResp = None

HealthIdle == HealthInit

\* HealthCheck is called: results is empty, the range loop begins
HealthCheckStart ==
    /\ hcRun = None
    /\ hcResp = None
    /\ hcRun' = [old |-> rProviders, last |-> rProviders, visited |-> {},
                 results |-> {}, mutated |-> FALSE]
    /\ UNCHANGED hcResp
    /\ UNCHANGED exceptHealth

\* one iteration of `for name, provider := range r.providers`: the loop
\* produces an entry of the map as it is now
HealthCheckStep ==
    /\ hcRun # None
    /\ \E name \in rProviders \ hcRun.visited :
          hcRun' = [hcRun EXCEPT
                       !.visited = @ \cup {name},
                       !.results = IF IsProviderEnabled(rConfig, name)
                                   THEN @ \cup {name} ELSE @,
                       !.last = rProviders,
                       !.mutated = @ \/ rProviders # hcRun.last]
    /\ UNCHANGED hcResp
    /\ UNCHANGED exceptHealth

\* the runtime notices the write under the iteration and aborts the process
\* ("fatal error: concurrent map iteration and map write"); the detection is
\* best effort, so the loop may as well go on
HealthCheckFatal ==
    /\ hcRun # None
    /\ rProviders # hcRun.last
    /\ hcResp' = [fatal |-> TRUE, results |-> hcRun.results, old |-> hcRun.old,
                  new |-> rProviders, mutated |-> TRUE]
    /\ hcRun' = None
    /\ UNCHANGED exceptHealth

\* the range loop has no entry left: return results
HealthCheckReturn ==
    /\ hcRun # None
    /\ rProviders \ hcRun.visited = {}
    /\ hcResp' = [fatal |-> FALSE, results |-> hcRun.results, old |-> hcRun.old,
                  new |-> rProviders,
                  mutated |-> hcRun.mutated \/ rProviders # hcRun.last]
    /\ hcRun' = None
    /\ UNCHANGED exceptHealth

\* the caller has consumed the result
HealthCheckDone ==
    /\ hcResp # None
    /\ hcResp' = None
    /\ UNCHANGED hcRun
    /\ UNCHANGED exceptHealth

(***************************************************************************)
(* Credential strategy engine                                              *)
(***************************************************************************)
\* the credential-strategy list of each instance, in declared order
DeclaredStrategies ==
    [i \in {"bedrock_us1", "openai_primary"} |->
        IF i = "bedrock_us1"
        THEN <<"irsa", "oidc-federation", "vault-sts", "static-env">>
        ELSE <<"vault-dynamic", "static-key">>]

Instances == DOMAIN DeclaredStrategies
CredCallers == {"r1", "r2"}

\* the safety margin taken off the expiry of a cached credential
SafetyMargin == 1
\* how long a credential a strategy produces lives
CredLifetime == 3
\* bounds on the clock and on the refreshes of one instance
MaxClock == 4
MaxRefreshes == 2

\* cache hit before expiry: the entry's TTL is expiry - safetyMargin
CacheUsable(entry, now) == entry # None /\ now < entry.expiry - SafetyMargin

\* a cached credential that has not expired yet
StillValid(entry, now) == entry # None /\ now < entry.expiry

\* callers for a key with a refresh in flight share it
JoinsFlight_Never(flight) == FALSE

JoinsFlight(flight) == flight # None

\* the engine is through with the list: a strategy succeeded, or all failed
RefreshSettled_AllTried(inst, attempts) ==
    Len(attempts) = Len(DeclaredStrategies[inst])

RefreshSettled(inst, attempts) ==
    \/ Len(attempts) > 0 /\ attempts[Len(attempts)].ok
    \/ Len(attempts) = Len(DeclaredStrategies[inst])

\* the strategy the engine tries next
NextStrategy(inst, attempts) == DeclaredStrategies[inst][Len(attempts) + 1]

CredentialUnavailable == [status |-> "CredentialUnavailable", code |-> 503]

\* what a settled refresh gives its callers: the new credential; after a
\* failure the cached credential if it is still valid, else
\* CredentialUnavailable
RefreshResult(flight, entry, now) ==
    IF Len(flight.attempts) > 0 /\ flight.attempts[Len(flight.attempts)].ok
    THEN [status |-> "ok", cred |-> flight.id, expiry |-> now + CredLifetime]
    ELSE IF StillValid(entry, now)
         THEN [status |-> "ok", cred |-> entry.cred, expiry |-> entry.expiry]
         ELSE CredentialUnavailable

IdleCred == [pc |-> "idle"]

CredInit ==
    /\ crNow = 0
    /\ crCache = [i \in Instances |-> None]
    /\ crFlight = [i \in Instances |-> None]
    /\ crCalls = [c \in CredCallers |-> IdleCred]
    /\ crRefreshes = [i \in Instances |-> 0]
    /\ crLast = [i \in Instances |-> None]

CredIdle == CredInit

\* a request asks the engine for the credentials of an instance: cache hit,
\* or join the refresh in flight, or start one
GetCredentials(c) ==
    /\ crCalls[c].pc = "idle"
    /\ \E inst \in Instances :
          LET call == [inst |-> inst, usable |-> CacheUsable(crCache[inst], crNow),
                       before |-> crRefreshes[inst]]
          IN  IF CacheUsable(crCache[inst], crNow)
              THEN /\ crCalls' = [crCalls EXCEPT ![c] =
                          [pc |-> "done", call |-> call, servedBy |-> "cache",
                           flight |-> 0, after |-> crRefreshes[inst],
                           result |-> [status |-> "ok", cred |-> crCache[inst].cred,
                                       expiry |-> crCache[inst].expiry]]]
                   /\ UNCHANGED <<crFlight, crRefreshes>>
              ELSE IF JoinsFlight(crFlight[inst])
              THEN /\ crCalls' = [crCalls EXCEPT ![c] =
                          [pc |-> "waiting", call |-> call, servedBy |-> "refresh",
                           flight |-> crFlight[inst].id, after |-> crRefreshes[inst],
                           result |-> None]]
                   /\ UNCHANGED <<crFlight, crRefreshes>>
              ELSE /\ crRefreshes[inst] < MaxRefreshes
                   /\ crRefreshes' = [crRefreshes EXCEPT ![inst] = @ + 1]
                   /\ crFlight' = [crFlight EXCEPT ![inst] =
                          [id |-> crRefreshes[inst] + 1, attempts |-> << >>]]
                   /\ crCalls' = [crCalls EXCEPT ![c] =
                          [pc |-> "waiting", call |-> call, servedBy |-> "refresh",
                           flight |-> crRefreshes[inst] + 1,
                           after |-> crRefreshes[inst] + 1, result |-> None]]
    /\ UNCHANGED <<crNow, crCache, crLast>>
    /\ UNCHANGED exceptCred

\* the refresh in flight runs its next strategy, which succeeds or fails
AttemptStrategy(inst) ==
    /\ crFlight[inst] # None
    /\ ~RefreshSettled(inst, crFlight[inst].attempts)
    /\ \E ok \in BOOLEAN :
          crFlight' = [crFlight EXCEPT ![inst].attempts =
                          Append(@, [strategy |-> NextStrategy(inst, @), ok |-> ok])]
    /\ UNCHANGED <<crNow, crCache, crCalls, crRefreshes, crLast>>
    /\ UNCHANGED exceptCred

\* the refresh is settled: cache the new credential and hand the result to
\* every caller that waits for this instance
FinishRefresh(inst) ==
    /\ crFlight[inst] # None
    /\ RefreshSettled(inst, crFlight[inst].attempts)
    /\ LET flight == crFlight[inst]
           result == RefreshResult(flight, crCache[inst], crNow)
           fresh  == result.status = "ok" /\ result.cred = flight.id
       IN  /\ crCache' = [crCache EXCEPT ![inst] =
                  IF fresh THEN [cred |-> result.cred, expiry |-> result.expiry]
                  ELSE @]
           /\ crCalls' = [c \in CredCallers |->
                  IF crCalls[c].pc = "waiting" /\ crCalls[c].call.inst = inst
                  THEN [crCalls[c] EXCEPT !.pc = "done", !.result = result]
                  ELSE crCalls[c]]
           /\ crLast' = [crLast EXCEPT ![inst] =
                  [id |-> flight.id, attempts |-> flight.attempts, result |-> result]]
    /\ crFlight' = [crFlight EXCEPT ![inst] = None]
    /\ UNCHANGED <<crNow, crRefreshes>>
    /\ UNCHANGED exceptCred

\* the request goes on with what it got
CredReturn(c) ==
    /\ crCalls[c].pc = "done"
    /\ crCalls' = [crCalls EXCEPT ![c] = IdleCred]
    /\ UNCHANGED <<crNow, crCache, crFlight, crRefreshes, crLast>>
    /\ UNCHANGED exceptCred

\* time passes
CredTick ==
    /\ crNow < MaxClock
    /\ crNow' = crNow + 1
    /\ UNCHANGED <<crCache, crFlight, crCalls, crRefreshes, crLast>>
    /\ UNCHANGED exceptCred

(***************************************************************************)
(* ModelRouter: internal/router/model_router.go                            *)
(***************************************************************************)
bedrockPrefixes ==
    { <<"claude", "-">>,
      <<"amazon", ".", "titan", "-">>,
      <<"ai", "2", "1", ".", "j", "2", "-">>,
      <<"meta", ".", "llama">>,
      <<"mistral", ".">>,
      <<"cohere", ".", "command", "-", "text">> }

openaiPrefixes ==
    { <<"gpt", "-", "3", ".", "5", "-">>,
      <<"gpt", "-", "4">>,
      <<"text", "-", "davinci", "-">>,
      <<"text", "-", "curie", "-">>,
      <<"text", "-", "babbage", "-">>,
      <<"text", "-", "ada", "-">> }

vertexPrefixes ==
    { <<"gemini", "-">>,
      <<"text", "-", "bison">>,
      <<"chat", "-", "bison">>,
      <<"codechat", "-", "bison">> }

\* matchModelPattern
MatchModelPattern(model) ==
    IF HasSuffix(model, <<"-", "azure">>) \/ HasSuffix(model, <<"-", "deployment">>)
    THEN "azure"
    ELSE IF HasSuffix(model, <<"-", "anthropic">>) THEN "anthropic"
    ELSE IF HasPrefix(model, <<"ibm", "/">>) THEN "ibm"
    ELSE IF HasPrefix(model, <<"cohere", ".">>)
            /\ ~Contains(model, <<"command", "-", "text">>) THEN "oracle"
    ELSE IF \E prefix \in bedrockPrefixes : HasPrefix(model, prefix) THEN "bedrock"
    ELSE IF \E prefix \in openaiPrefixes : HasPrefix(model, prefix) THEN "openai"
    ELSE IF \E prefix \in vertexPrefixes : HasPrefix(model, prefix) THEN "vertex"
    ELSE ""

\* ModelRouter.GetProviderForModel
ModelRouterGetProviderForModel(modelMap, model) ==
    IF model \in DOMAIN modelMap THEN modelMap[model] ELSE MatchModelPattern(model)

\* the names of TestMultiProviderRouting and of the routing table
Claude3Sonnet          == <<"claude", "-", "3", "-", "sonnet">>
Claude3SonnetAnthropic ==
    <<"claude", "-", "3", "-", "sonnet", "-", "2", "0", "2", "4", "0", "2", "2", "9",
      "-", "anthropic">>
CohereCommandRPlus     == <<"cohere", ".", "command", "-", "r", "-", "plus">>
CohereCommandText      == <<"cohere", ".", "command", "-", "text">>
Gpt4AzureDeployment    == <<"gpt", "-", "4", "-", "azure", "-", "deployment">>

ExampleNames ==
    { Claude3Sonnet, Claude3SonnetAnthropic, CohereCommandRPlus, CohereCommandText,
      Gpt4AzureDeployment,
      <<"gpt", "-", "4">>, <<"gpt", "-", "4", "-", "turbo">>,
      <<"gpt", "-", "3", ".", "5", "-", "turbo">>,
      <<"gemini", "-", "pro">>, <<"gemini", "-", "1", ".", "5", "-", "pro">>,
      <<"ibm", "/", "granite", "-", "1", "3", "b", "-", "chat", "-", "v", "2">>,
      <<"amazon", ".", "titan", "-", "text", "-", "express", "-", "v", "1">> }

NameHeads ==
    { << >>, <<"x", "-">>, <<"ibm", "/">>, <<"cohere", ".">>, <<"gpt", "-">>,
      <<"gemini", "-">>, <<"claude", "-">> }
    \cup bedrockPrefixes \cup openaiPrefixes \cup vertexPrefixes

NameBodies ==
    { << >>, <<"x">>, <<"5">>, <<"o">>, <<"command", "-", "text">>,
      <<"embed", "-", "command", "-", "text", "-", "v", "1">>,
      <<"command", "-", "r">> }

NameTails ==
    { << >>, <<"-", "azure">>, <<"-", "deployment">>, <<"-", "anthropic">>,
      <<"-", "azure", "-", "x">>, <<"azure">> }

NameAlphabet ==
    { "claude", "cohere", "gpt", "gemini", "ibm", "-", ".", "/", "4", "azure",
      "anthropic", "command", "text", "x" }

\* bound on the length of the model names made of arbitrary characters
MaxNameLen == 3

ModelNames ==
    ExampleNames
    \cup { h \o b \o t : h \in NameHeads, b \in NameBodies, t \in NameTails }
    \cup SeqsUpTo(NameAlphabet, MaxNameLen)

\* RegisterProvider: the error and the providers map it leaves
ModelRouterRegisterProviderResult(providers, provider) ==
    IF provider.name \in DOMAIN providers
    THEN [err |-> TRUE, providers |-> providers]
    ELSE [err |-> FALSE,
          providers |-> [n \in DOMAIN providers \cup {provider.name} |->
                            IF n = provider.name THEN provider ELSE providers[n]]]

\* RegisterModelMapping: the error and the model map it leaves
RegisterModelMappingUnchecked(providers, modelMap, model, providerName) ==
    [err |-> FALSE,
     modelMap |-> [m \in DOMAIN modelMap \cup {model} |->
                      IF m = model THEN providerName ELSE modelMap[m]]]

RegisterModelMappingResult(providers, modelMap, model, providerName) ==
    IF providerName \notin DOMAIN providers
    THEN [err |-> TRUE, modelMap |-> modelMap]
    ELSE RegisterModelMappingUnchecked(providers, modelMap, model, providerName)

\* a read of the providers map: the zero value (nil) for a missing key
ProviderAt(providers, name) ==
    IF name \in DOMAIN providers THEN Some(providers[name]) ELSE None

\* RouteModel: the provider (None for nil) and the error
RouteModel(providers, modelMap, model) ==
    IF model \in DOMAIN modelMap
    THEN [provider |-> ProviderAt(providers, modelMap[model]), err |-> FALSE]
    ELSE LET providerName == MatchModelPattern(model)
         IN  IF providerName # "" /\ providerName \in DOMAIN providers
             THEN [provider |-> Some(providers[providerName]), err |-> FALSE]
             ELSE [provider |-> None, err |-> TRUE]

\* the provider values and the explicit mappings the runs register: two
\* distinct providers may carry the same name
MappableProviders == {"bedrock", "openai"}
ProviderValues    == [name : MappableProviders, id : {1, 2}]
MappableModels    == { <<"gpt", "-", "4">>, <<"x">> }
\* the names RouteModel is asked for
RoutedModels ==
    ExampleNames \cup MappableModels
    \cup { h \o b \o t : h \in NameHeads, b \in NameBodies, t \in NameTails }

ModelRouterInit ==
    /\ mrProviders = << >>
    /\ mrModelMap = << >>
    /\ mReq = None
    /\ mResp = None

ModelRouterIdle == ModelRouterInit

\* one call of ModelRouter.RegisterProvider
ModelRouterRegisterProvider ==
    /\ mReq = None
    /\ \E provider \in ProviderValues :
          LET res == ModelRouterRegisterProviderResult(mrProviders, provider)
          IN  /\ mReq' = [method |-> "RegisterProvider", provider |-> provider,
                          providers |-> mrProviders, modelMap |-> mrModelMap]
              /\ mResp' = [err |-> res.err]
              /\ mrProviders' = res.providers
    /\ UNCHANGED mrModelMap
    /\ UNCHANGED exceptModel

\* one call of ModelRouter.RegisterModelMapping
RegisterModelMapping ==
    /\ mReq = None
    /\ \E model \in MappableModels, providerName \in MappableProviders :
          LET res == RegisterModelMappingResult(mrProviders, mrModelMap, model, providerName)
          IN  /\ mReq' = [method |-> "RegisterModelMapping", model |-> model,
                          providerName |-> providerName,
                          providers |-> mrProviders, modelMap |-> mrModelMap]
              /\ mResp' = [err |-> res.err]
              /\ mrModelMap' = res.modelMap
    /\ UNCHANGED mrProviders
    /\ UNCHANGED exceptModel

\* one call of ModelRouter.RouteModel
DoRouteModel ==
    /\ mReq = None
    /\ \E model \in RoutedModels :
          /\ mReq' = [method |-> "RouteModel", model |-> model]
          /\ mResp' = RouteModel(mrProviders, mrModelMap, model)
    /\ UNCHANGED <<mrProviders, mrModelMap>>
    /\ UNCHANGED exceptModel

\* one call of ModelRouter.GetProviderForModel
DoGetProviderForModel ==
    /\ mReq = None
    /\ \E model \in ModelNames :
          /\ mReq' = [method |-> "GetProviderForModel", model |-> model]
          /\ mResp' = ModelRouterGetProviderForModel(mrModelMap, model)
    /\ UNCHANGED <<mrProviders, mrModelMap>>
    /\ UNCHANGED exceptModel

\* the call has returned
ModelRouterDone ==
    /\ mReq # None
    /\ mReq' = None
    /\ mResp' = None
    /\ UNCHANGED <<mrProviders, mrModelMap>>
    /\ UNCHANGED exceptModel

(***************************************************************************)
(* Storage path detection: internal/router/model_router_test.go            *)
(***************************************************************************)
\* the values of the prefixes map of ParseStoragePath
StorageTypes == {"s3", "azblob", "gcpblob", "ibmcos", "ociobj", "https"}

StoragePrefix(stype) == <<"/", "-", stype, "/">>

NotStorage == [storageType |-> EmptyStr, route |-> EmptyStr, isStorage |-> FALSE]

ParseStoragePath(path) ==
    IF Len(path) < 3 \/ path[1] # "/" \/ path[2] # "-"
    THEN NotStorage
    ELSE IF \E stype \in StorageTypes : HasPrefix(path, StoragePrefix(stype))
    THEN LET stype     == CHOOSE t \in StorageTypes : HasPrefix(path, StoragePrefix(t))
             remaining == SubSeq(path, Len(StoragePrefix(stype)) + 1, Len(path))
             i         == IndexOf(remaining, "/")
         IN  [storageType |-> Str(stype),
              route |-> IF i # 0 THEN SubSeq(remaining, 1, i - 1) ELSE remaining,
              isStorage |-> TRUE]
    ELSE NotStorage

OperationResult(operation, bucket, key) ==
    [operation |-> operation, bucket |-> bucket, key |-> key]

\* ParseStorageOperation with the key cut at its first slash
ParseStorageOperation_FirstSegment(path) ==
    LET parsed == ParseStoragePath(path)
        parts  == SplitN(path, "/", 7)
    IN  IF ~parsed.isStorage \/ Len(parts) < 4
        THEN OperationResult(EmptyStr, EmptyStr, EmptyStr)
        ELSE OperationResult(parts[4],
                             IF Len(parts) > 4 THEN parts[5] ELSE EmptyStr,
                             IF Len(parts) > 5 THEN parts[6] ELSE EmptyStr)

ParseStorageOperation(path) ==
    LET parsed == ParseStoragePath(path)
        prefix == <<"/", "-">> \o parsed.storageType \o <<"/">> \o parsed.route \o <<"/">>
    IN  IF ~parsed.isStorage
        THEN OperationResult(EmptyStr, EmptyStr, EmptyStr)
        ELSE IF Len(path) <= Len(prefix)
        THEN OperationResult(EmptyStr, EmptyStr, EmptyStr)
        ELSE LET remaining == SubSeq(path, Len(prefix) + 1, Len(path))
                 slashIdx  == IndexOf(remaining, "/")
             IN  IF slashIdx = 0
                 THEN OperationResult(remaining, EmptyStr, EmptyStr)
                 ELSE LET operation == SubSeq(remaining, 1, slashIdx - 1)
                          rest      == SubSeq(remaining, slashIdx + 1, Len(remaining))
                          slashIdx2 == IndexOf(rest, "/")
                      IN  IF slashIdx2 = 0
                          THEN OperationResult(operation, rest, EmptyStr)
                          ELSE OperationResult(operation,
                                               SubSeq(rest, 1, slashIdx2 - 1),
                                               SubSeq(rest, slashIdx2 + 1, Len(rest)))

\* the first path element of the paths the functions are called with
PathTypes == StorageTypes \cup {"ftp", "s3x"}

PathRoutes == {Str("prod"), EmptyStr, <<"eu", "-", "1">>}

PathSegments == {Str("get"), Str("rag-docs"), EmptyStr}

PathRemainders ==
    { Str("a.txt"), <<"policies", "/", "p.pdf">>, <<"tmp", "/">>, <<"/", "x">>,
      <<"a", "/", "b", "/", "c", "/">>, <<"d", "/", "/", "e">> }

\* /-T/R/O/B/K together with the parts it was written from
FullStoragePaths ==
    { [path |-> <<"/", "-", t, "/">> \o r \o <<"/">> \o o \o <<"/">> \o b \o <<"/">> \o k,
       type |-> t, route |-> r, operation |-> o, bucket |-> b, key |-> k]
      : t \in PathTypes, r \in PathRoutes, o \in PathSegments, b \in PathSegments,
        k \in PathRemainders }

PathAlphabet == {"/", "-", "s3", "https", "v1", "transparent"}

\* bound on the length of the paths made of arbitrary characters
MaxPathLen == 4

AnyPaths ==
    { f.path : f \in FullStoragePaths }
    \cup { <<"/", "-", t>> \o rest : t \in PathTypes,
            rest \in { EmptyStr, <<"/">>, <<"/", "prod">>, <<"/", "prod", "/">>,
                       <<"/", "prod", "/", "get">>, <<"/", "prod", "/", "get", "/", "b">>,
                       <<"/", "prod", "/", "get", "/", "b", "/">> } }
    \cup { <<"/", "transparent", "/", "bedrock", "/", "model", "/", "m", "/", "invoke">>,
            <<"/", "v1", "/", "chat", "/", "completions">>,
            <<"/", "s3", "/", "prod", "/", "get", "/", "b", "/", "k">>,
            <<"-", "s3", "/", "prod", "/", "get", "/", "b", "/", "k">> }
    \cup SeqsUpTo(PathAlphabet, MaxPathLen)


(***************************************************************************)
(* Converse responses: internal/translator/bedrock_converse.go             *)
(***************************************************************************)
\* the text of the last block alone
ConverseContent_LastOnly(blocks) ==
    IF Len(blocks) = 0 THEN ""
    ELSE IF blocks[Len(blocks)].Text # None THEN blocks[Len(blocks)].Text.val ELSE ""

RECURSIVE ConverseContent(_)
\* the content string built by the loop over the content blocks
ConverseContent(blocks) ==
    IF Len(blocks) = 0 THEN ""
    ELSE LET n     == Len(blocks)
             block == blocks[n]
             sofar == ConverseContent(SubSeq(blocks, 1, n - 1))
         IN  IF block.Text # None THEN sofar \o block.Text.val ELSE sofar

RECURSIVE ConverseToolCalls(_)
\* the toolCalls slice built by the loop over the content blocks
ConverseToolCalls(blocks) ==
    IF Len(blocks) = 0 THEN << >>
    ELSE LET n     == Len(blocks)
             block == blocks[n]
             sofar == ConverseToolCalls(SubSeq(blocks, 1, n - 1))
         IN  IF block.ToolUse # None
             THEN Append(sofar, [ID |-> block.ToolUse.val.ToolUseId,
                                 Type |-> "function",
                                 Name |-> block.ToolUse.val.Name])
             ELSE sofar

\* the message built from content and toolCalls
ChatMessage(content, toolCalls) ==
    [Role |-> "assistant",
     Content |-> IF content # "" THEN Some(content) ELSE None,
     ToolCalls |-> IF Len(toolCalls) > 0 THEN toolCalls ELSE << >>]

\* TranslateConverseToOpenAI: choices[0].message
TranslateConverseToOpenAI(converseResp) ==
    LET blocks == IF converseResp.Message # None
                  THEN converseResp.Message.val.Content ELSE << >>
    IN  ChatMessage(ConverseContent(blocks), ConverseToolCalls(blocks))

BlockTexts == {None, Some(""), Some("Hello"), Some(" world")}

BlockToolUses ==
    { None,
      Some([ToolUseId |-> "tooluse_1", Name |-> "get_weather"]),
      Some([ToolUseId |-> "tooluse_2", Name |-> "search"]) }

ContentBlocks == [Text : BlockTexts, ToolUse : BlockToolUses]

\* bound on the number of content blocks of a Converse response
MaxBlocks == 3

ConverseResponses ==
    { [Message |-> None] }
    \cup { [Message |-> Some([Role |-> "assistant", Content |-> blocks])]
            : blocks \in SeqsUpTo(ContentBlocks, MaxBlocks) }

\* the model names GetBedrockModelID is called with
BedrockNames ==
    DOMAIN BedrockModelIDMap
    \cup { pair[2] : pair \in BedrockModelIDPairs }
    \cup { "", "a", "gpt-4", "anthropic.", "anthropic.claude-v2", "meta.llama3-8b-instruct-v1:0" }

(***************************************************************************)
(* Sampling temperature of a chat request, in tenths                       *)
(***************************************************************************)
\* the default both the handler and TranslateOpenAIToBedrock fall back to (1.0)
DefaultTemperature == 10

\* decoding the JSON body into ChatCompletionRequest.Temperature, a float64:
\* an absent field leaves the zero value
BindTemperature(client) == IF client = None THEN 0 ELSE client.val

\* "Set default values" of OpenAIHandler.ChatCompletions
HandlerTemperature(temperature) ==
    IF temperature = 0 THEN DefaultTemperature ELSE temperature

\* InferenceConfig.Temperature of TranslateOpenAIToConverseAPI (nil is omitted)
ConverseTemperature(temperature) ==
    IF temperature > 0 THEN Some(temperature) ELSE None

\* BedrockRequest.Temperature of TranslateOpenAIToBedrock, marshalled with
\* omitempty
BedrockTemperature(temperature) ==
    LET t == IF temperature = 0 THEN DefaultTemperature ELSE temperature
    IN  IF t = 0 THEN None ELSE Some(t)

\* the temperature in the body sent upstream: through the chat handler and the
\* Converse translation, or through TranslateOpenAIToBedrock alone
UpstreamTemperature(client, path) ==
    IF path = "converse"
    THEN ConverseTemperature(HandlerTemperature(BindTemperature(client)))
    ELSE BedrockTemperature(BindTemperature(client))

\* bound on the temperatures a client sends (2.0)
MaxTemperature == 20
ClientTemperatures == {None} \cup { Some(t) : t \in 0..MaxTemperature }
TemperaturePaths == {"converse", "invoke"}

(***************************************************************************)
(* Transparent Bedrock proxy: internal/proxy/bedrock.go                    *)
(***************************************************************************)
\* BedrockProxy.validateRequest: the request is refused
ValidateRequestFails(req) ==
    \/ /\ req.method \in {"POST", "PUT"}
       /\ req.contentType \notin {"", "application/json"}
    \/ req.tooLarge

\* BedrockProxy.directRequest: the request the reverse proxy goes on with;
\* a SignRequest error is logged and the request is left as it is
DirectRequest(req, signErr) == [signed |-> ~signErr]

\* health: the calls made on the health checker, in order
ProxyResult(status, sent, signed, health) ==
    [status |-> status, sent |-> sent, signed |-> signed, health |-> health]

\* BedrockProxy.errorHandler: the status it writes and what it records
ErrorHandler == [statusCode |-> 502, health |-> <<"RecordError">>]

\* what the reverse proxy wrote through the responseRecorder
ServeHTTP(up) ==
    IF up = "neterr" THEN ErrorHandler
    ELSE [statusCode |-> StatusOf(up), health |-> << >>]

\* the end of BedrockProxy.Handler: the outcome recorded for the status
RecordOutcome(statusCode) ==
    IF statusCode >= 500 THEN "RecordError" ELSE "RecordSuccess"

\* BedrockProxy.Handler with the reverse proxy it drives: Director, round
\* trip, ErrorHandler on a failed round trip
BedrockProxyHandler(req, signErr, up) ==
    IF ValidateRequestFails(req)
    THEN ProxyResult(400, FALSE, FALSE, << >>)
    ELSE LET outgoing == DirectRequest(req, signErr)
             recorder == ServeHTTP(up)
         IN  ProxyResult(recorder.statusCode, TRUE, outgoing.signed,
                         Append(recorder.health, RecordOutcome(recorder.statusCode)))

\* what the Bedrock endpoint does with the proxied request
ProxyOutcomes == UpstreamOutcomes \cup {"403"}

ProxyRequests ==
    [method : {"GET", "POST", "PUT"},
     contentType : {"", "application/json", "text/plain"},
     tooLarge : BOOLEAN]

(***************************************************************************)
(* DocumentFetcher and DocumentCache: unnamed/part_002                     *)
(***************************************************************************)
\* cacheTTL of NewDocumentFetcher, in minutes
CacheTTL == 2

\* period of the ticker of cleanupLoop, in minutes
SweepPeriod == 5

\* bound on the clock
MaxTime == 6

\* bound on the number of HTTP fetches
MaxFetches == 3

Callers == {"c1", "c2"}

DocURLs == {"https://a/doc", "https://b/doc"}

\* time.Time.After
After(t, u) == t > u

\* DocumentCache.Get: the document, nil for a missing or an expired entry
CacheGet(entries, now, url) ==
    IF url \notin DOMAIN entries THEN None
    ELSE IF After(now, entries[url].expiresAt) THEN None
    ELSE entries[url].document

\* DocumentCache.Set
CacheSetEntry(entries, now, url, doc) ==
    [u \in DOMAIN entries \cup {url} |->
        IF u = url THEN [document |-> doc, expiresAt |-> now + CacheTTL] ELSE entries[u]]

\* DocumentCache.Size
CacheSize(entries) == Cardinality(DOMAIN entries)

\* DocumentCache.cleanup
CleanupEntries(entries, now) ==
    [u \in { v \in DOMAIN entries : ~After(now, entries[v].expiresAt) } |-> entries[u]]

IdleCall == [pc |-> "idle", url |-> "", doc |-> None]

DocInit ==
    /\ dcEntries = << >>
    /\ dcNow = 0
    /\ dcCalls = [c \in Callers |-> IdleCall]
    /\ dcFetches = 0
    /\ dcLastGet = None

DocIdle == DocInit

\* FetchDocument is called and checks the cache; Get holds the read lock
\* and leaves the entries as they are
FetchDocumentGet(c) ==
    /\ dcCalls[c].pc = "idle"
    /\ dcEntries' = dcEntries
    /\ \E url \in DocURLs :
          LET doc == CacheGet(dcEntries, dcNow, url)
          IN  /\ dcCalls' = [dcCalls EXCEPT ![c] =
                     [pc |-> IF doc # None THEN "return" ELSE "fetch", url |-> url,
                      doc |-> doc]]
              /\ dcLastGet' = [url |-> url, doc |-> doc,
                               expired |-> /\ url \in DOMAIN dcEntries
                                           /\ After(dcNow, dcEntries[url].expiresAt),
                               sizeBefore |-> CacheSize(dcEntries),
                               cachedAfter |-> url \in DOMAIN dcEntries',
                               sizeAfter |-> CacheSize(dcEntries')]
    /\ UNCHANGED <<dcNow, dcFetches>>
    /\ UNCHANGED exceptDoc

\* httpClient.Do and the reading of the body; ok: status 200 and a body read
FetchDocumentDo(c) ==
    /\ dcCalls[c].pc = "fetch"
    /\ dcFetches < MaxFetches
    /\ dcFetches' = dcFetches + 1
    /\ \E ok \in BOOLEAN :
          dcCalls' = [dcCalls EXCEPT ![c] =
              IF ok
              THEN [pc |-> "set", url |-> dcCalls[c].url,
                    doc |-> [URL |-> dcCalls[c].url, Fetch |-> dcFetches + 1]]
              ELSE [pc |-> "return", url |-> dcCalls[c].url, doc |-> None]]
    /\ UNCHANGED <<dcEntries, dcNow, dcLastGet>>
    /\ UNCHANGED exceptDoc

\* f.cache.Set(url, doc)
FetchDocumentSet(c) ==
    /\ dcCalls[c].pc = "set"
    /\ dcEntries' = CacheSetEntry(dcEntries, dcNow, dcCalls[c].url, dcCalls[c].doc)
    /\ dcCalls' = [dcCalls EXCEPT ![c].pc = "return"]
    /\ UNCHANGED <<dcNow, dcFetches, dcLastGet>>
    /\ UNCHANGED exceptDoc

\* FetchDocument returns
FetchDocumentReturn(c) ==
    /\ dcCalls[c].pc = "return"
    /\ dcCalls' = [dcCalls EXCEPT ![c] = IdleCall]
    /\ UNCHANGED <<dcEntries, dcNow, dcFetches, dcLastGet>>
    /\ UNCHANGED exceptDoc

\* a minute passes
Tick ==
    /\ dcNow < MaxTime
    /\ dcNow' = dcNow + 1
    /\ UNCHANGED <<dcEntries, dcCalls, dcFetches, dcLastGet>>
    /\ UNCHANGED exceptDoc

\* the ticker of cleanupLoop fires
CleanupLoop ==
    /\ dcNow > 0
    /\ dcNow % SweepPeriod = 0
    /\ dcEntries' = CleanupEntries(dcEntries, dcNow)
    /\ UNCHANGED <<dcNow, dcCalls, dcFetches, dcLastGet>>
    /\ UNCHANGED exceptDoc

(***************************************************************************)
(* Stateless calls                                                         *)
(***************************************************************************)
\* one request through the transparent Bedrock proxy
DoBedrockProxy ==
    /\ fReq = None
    /\ \E req \in ProxyRequests, signErr \in BOOLEAN, up \in ProxyOutcomes :
          /\ fReq' = [fn |-> "BedrockProxy", req |-> req, signErr |-> signErr, up |-> up]
          /\ fResp' = BedrockProxyHandler(req, signErr, up)
    /\ UNCHANGED exceptCall

\* one call of GetBedrockModelID
DoGetBedrockModelID ==
    /\ fReq = None
    /\ \E friendlyName \in BedrockNames :
          /\ fReq' = [fn |-> "GetBedrockModelID", model |-> friendlyName]
          /\ fResp' = GetBedrockModelID(friendlyName)
    /\ UNCHANGED exceptCall

\* one call of TranslateOpenAIToConverseAPI
DoTranslateOpenAIToConverseAPI ==
    /\ fReq = None
    /\ \E model \in BedrockNames, stream \in BOOLEAN :
          /\ fReq' = [fn |-> "TranslateOpenAIToConverseAPI", model |-> model,
                      stream |-> stream]
          /\ fResp' = TranslateOpenAIToConverseAPI(model, stream)
    /\ UNCHANGED exceptCall

\* one call of TranslateConverseToOpenAI
DoTranslateConverseToOpenAI ==
    /\ fReq = None
    /\ \E converseResp \in ConverseResponses :
          /\ fReq' = [fn |-> "TranslateConverseToOpenAI", converseResp |-> converseResp]
          /\ fResp' = TranslateConverseToOpenAI(converseResp)
    /\ UNCHANGED exceptCall

\* one chat request carrying a temperature (or none) through a provider path
DoChatTemperature ==
    /\ fReq = None
    /\ \E client \in ClientTemperatures, path \in TemperaturePaths :
          /\ fReq' = [fn |-> "ChatTemperature", client |-> client, path |-> path]
          /\ fResp' = [upstream |-> UpstreamTemperature(client, path)]
    /\ UNCHANGED exceptCall

\* one call of ParseStoragePath
DoParseStoragePath ==
    /\ fReq = None
    /\ \E path \in AnyPaths :
          /\ fReq' = [fn |-> "ParseStoragePath", path |-> path]
          /\ fResp' = ParseStoragePath(path)
    /\ UNCHANGED exceptCall

\* one call of ParseStorageOperation on a path /-T/R/O/B/K
DoParseStorageOperation ==
    /\ fReq = None
    /\ \E full \in FullStoragePaths :
          /\ fReq' = [fn |-> "ParseStorageOperation", path |-> full.path, parts |-> full]
          /\ fResp' = ParseStorageOperation(full.path)
    /\ UNCHANGED exceptCall

CallIdle ==
    /\ fReq = None
    /\ fResp = None

\* the call has returned
CallDone ==
    /\ fReq # None
    /\ fReq' = None
    /\ fResp' = None
    /\ UNCHANGED exceptCall

(***************************************************************************)
(* Specifications                                                          *)
(***************************************************************************)
InitStorage == StorageInit /\ AuthIdle /\ RouterIdle /\ ModelRouterIdle /\ CallIdle /\ DocIdle /\ HealthIdle /\ CredIdle

StorageNext == StorageHandle \/ StorageDone

SpecStorage == InitStorage /\ [][StorageNext]_vars

InitAuth == StorageIdle /\ AuthInit /\ RouterIdle /\ ModelRouterIdle /\ CallIdle /\ DocIdle /\ HealthIdle /\ CredIdle

AuthNext ==
    \/ GateSessionTokenAuth
    \/ GateHybridAuth
    \/ GateEnhancedAPIKeyAuth
    \/ AuthLogin
    \/ AuthRefresh
    \/ AuthRevokeSession
    \/ ExpireSession
    \/ AuthDone

SpecAuth == InitAuth /\ [][AuthNext]_vars

InitRouter == StorageIdle /\ AuthIdle /\ RouterInit /\ ModelRouterIdle /\ CallIdle /\ DocIdle /\ HealthIdle /\ CredIdle

RouterNext ==
    \/ RegisterProvider
    \/ UnregisterProvider
    \/ DoRouteRequest
    \/ RouterDone

SpecRouter == InitRouter /\ [][RouterNext]_vars

InitChat == StorageIdle /\ AuthIdle /\ ChatInit /\ ModelRouterIdle /\ CallIdle /\ DocIdle /\ HealthIdle /\ CredIdle

ChatNext ==
    \/ RegisterProvider
    \/ UnregisterProvider
    \/ DoChatCompletions
    \/ RouterDone

SpecChat == InitChat /\ [][ChatNext]_vars

InitRegistry == StorageIdle /\ AuthIdle /\ RouterIdle /\ ModelRouterIdle /\ CallIdle /\ DocIdle /\ HealthInit /\ CredIdle

RegistryNext ==
    \/ RegisterProvider
    \/ UnregisterProvider
    \/ HealthCheckStart
    \/ HealthCheckStep
    \/ HealthCheckFatal
    \/ HealthCheckReturn
    \/ HealthCheckDone

SpecRegistry == InitRegistry /\ [][RegistryNext]_vars

InitCredentials == StorageIdle /\ AuthIdle /\ RouterIdle /\ ModelRouterIdle /\ CallIdle /\ DocIdle /\ HealthIdle /\ CredInit

CredentialsNext ==
    \/ \E c \in CredCallers : GetCredentials(c)
    \/ \E inst \in Instances : AttemptStrategy(inst)
    \/ \E inst \in Instances : FinishRefresh(inst)
    \/ \E c \in CredCallers : CredReturn(c)
    \/ CredTick

SpecCredentials == InitCredentials /\ [][CredentialsNext]_vars

InitModelRouter == StorageIdle /\ AuthIdle /\ RouterIdle /\ ModelRouterInit /\ CallIdle /\ DocIdle /\ HealthIdle /\ CredIdle

ModelRouterNext ==
    \/ ModelRouterRegisterProvider
    \/ RegisterModelMapping
    \/ DoGetProviderForModel
    \/ DoRouteModel
    \/ ModelRouterDone

SpecModelRouter == InitModelRouter /\ [][ModelRouterNext]_vars

InitPaths == StorageIdle /\ AuthIdle /\ RouterIdle /\ ModelRouterIdle /\ CallIdle /\ DocIdle /\ HealthIdle /\ CredIdle

PathsNext ==
    \/ DoParseStoragePath
    \/ DoParseStorageOperation
    \/ CallDone

SpecPaths == InitPaths /\ [][PathsNext]_vars

InitTranslate == StorageIdle /\ AuthIdle /\ RouterIdle /\ ModelRouterIdle /\ CallIdle /\ DocIdle /\ HealthIdle /\ CredIdle

TranslateNext ==
    \/ DoGetBedrockModelID
    \/ DoTranslateOpenAIToConverseAPI
    \/ DoTranslateConverseToOpenAI
    \/ DoChatTemperature
    \/ CallDone

SpecTranslate == InitTranslate /\ [][TranslateNext]_vars

InitProxy == StorageIdle /\ AuthIdle /\ RouterIdle /\ ModelRouterIdle /\ CallIdle /\ DocIdle /\ HealthIdle /\ CredIdle

ProxyNext == DoBedrockProxy \/ CallDone

SpecProxy == InitProxy /\ [][ProxyNext]_vars

InitDocuments == StorageIdle /\ AuthIdle /\ RouterIdle /\ ModelRouterIdle /\ CallIdle /\ DocInit /\ HealthIdle /\ CredIdle

DocumentsNext ==
    \/ \E c \in Callers : FetchDocumentGet(c)
    \/ \E c \in Callers : FetchDocumentDo(c)
    \/ \E c \in Callers : FetchDocumentSet(c)
    \/ \E c \in Callers : FetchDocumentReturn(c)
    \/ Tick
    \/ CleanupLoop

SpecDocuments == InitDocuments /\ [][DocumentsNext]_vars

(***************************************************************************)
(* Storage claims                                                          *)
(***************************************************************************)
\* the request names all four path segments and a registered provider
StorageServed ==
    /\ sReq # None
    /\ sReq.wellFormed
    /\ sReq.provider \in StorageProviders

Range(q) == {q[i] : i \in 1..Len(q)}

\* the bucket is not in a non-empty AllowedBuckets list
BucketDenied == Len(acAllowedBuckets) > 0 /\ sReq.bucket \notin Range(acAllowedBuckets)

\* the key starts with a denied prefix, taken with or without its leading "/"
KeyDenied ==
    \E pfx \in Range(acDeniedPrefixes) :
        HasPrefix(sReq.key, pfx) \/ HasPrefix(sReq.key, TrimPrefix(pfx, <<"/">>))

OperationAllowlisted == sReq.operation \in {Str(o) : o \in instOperations}

CallsOf(fn) == {i \in 1..Len(sResp.calls) : sResp.calls[i].fn = fn}

\* C1: a request the access control denies (bucket outside a non-empty
\* AllowedBuckets, or key under a denied prefix with or without the leading
\* "/") is answered 403 "Access denied" and reaches no provider operation,
\* whatever the operation; an empty AllowedBuckets denies no bucket.
C1_AclDenialBeforeDispatch ==
    StorageServed =>
        /\ (BucketDenied \/ KeyDenied) =>
              /\ sResp.status = 403
              /\ sResp.message = "Access denied"
              /\ sResp.calls = << >>
        /\ (acAllowedBuckets = << >> /\ ~KeyDenied) =>
              ~(sResp.status = 403 /\ sResp.calls = << >>)

C1_Witness ==
    /\ StorageServed
    /\ sReq.operation = Str("put")
    /\ sReq.key = <<"secret", "/", "creds.json">>
    /\ <<"/", "secret", "/">> \in Range(acDeniedPrefixes)
    /\ sResp.status = 403
    /\ sResp.calls = << >>

\* the path ends at the bucket, or at the "/" after it
NoObjectKey == ~sReq.hasKey \/ sReq.key = EmptyStr

\* nothing but the operation allowlist stands between the request and its
\* provider operation
OtherwiseServable ==
    /\ ~BucketDenied
    /\ ~KeyDenied
    /\ sReq.operation \in {Str(o) : o \in StorageOps}
    /\ (NoObjectKey => sReq.operation = Str("list"))

\* C2: a request whose operation is not in the instance's operation
\* allowlist is answered 403 before any provider operation is invoked
\* (stated for the requests that no other test of the handler rejects).
C2_OperationAllowlistEnforced ==
    (StorageServed /\ ~OperationAllowlisted /\ OtherwiseServable) =>
        /\ sResp.status = 403
        /\ sResp.calls = << >>

AclAllows == ~BucketDenied /\ ~KeyDenied /\ OperationAllowlisted

\* C3: for a path with a bucket and no key that the ACL allows, list calls
\* ListObjects on the bucket, and get, put, delete, head and presign are
\* answered 400 without any provider operation.
C3_MissingKeyOnlyForList ==
    (StorageServed /\ NoObjectKey /\ AclAllows) =>
        /\ sReq.operation = Str("list") =>
              /\ Len(sResp.calls) = 1
              /\ sResp.calls[1].fn = "ListObjects"
              /\ sResp.calls[1].bucket = sReq.bucket
        /\ sReq.operation \in {Str("get"), Str("put"), Str("delete"),
                               Str("head"), Str("presign")} =>
              /\ sResp.status = 400
              /\ sResp.calls = << >>

C3_Witness ==
    /\ StorageServed /\ NoObjectKey /\ AclAllows
    /\ sReq.operation = Str("head")
    /\ sResp.status = 400
    /\ sResp.calls = << >>

\* the request gets as far as the TTL of the presign case
PresignWithTTL ==
    /\ StorageServed
    /\ AclAllows
    /\ sReq.operation = Str("presign")
    /\ ~NoObjectKey
    /\ sReq.query.ttl # EmptyStr
    /\ ~Atoi(sReq.query.ttl).err

RequestedTTL == Atoi(sReq.query.ttl).val

\* C4: a presign request whose ttl exceeds presign.maxTTL succeeds with an
\* expiry of exactly maxTTL, and no URL is minted with a TTL above maxTTL.
C4_PresignTTLClamped ==
    /\ (PresignWithTTL /\ RequestedTTL > PresignMaxTTL) =>
          /\ \A i \in CallsOf("GeneratePresignedURL") :
                sResp.calls[i].arg.ExpiresIn = PresignMaxTTL
          /\ (sReq.out = "ok" /\ sReq.query.operation = EmptyStr) =>
                (sResp.status = 200 /\ sResp.body.ExpiresIn = PresignMaxTTL)
    /\ (sReq # None /\ sResp.body # None) => sResp.body.ExpiresIn <= PresignMaxTTL

\* C5: a presign request with ttl = 0 or a negative ttl is answered 400 and
\* GeneratePresignedURL is not invoked.
C5_NonPositiveTTLRejected ==
    (PresignWithTTL /\ RequestedTTL <= 0) =>
        /\ sResp.status = 400
        /\ CallsOf("GeneratePresignedURL") = {}

(***************************************************************************)
(* Identity claims                                                         *)
(***************************************************************************)
GateServed == aReq # None /\ aReq.handler \in {"SessionTokenAuth", "HybridAuth", "EnhancedAPIKeyAuth"}

\* the session token the request carries is one of an active session
CarriesValidSession ==
    /\ aReq.handler \in {"SessionTokenAuth", "HybridAuth"}
    /\ SessionTokenOf(aReq.req) \in TokensOf(sessions)

\* the API key the gate reads from the request
PresentedAPIKey ==
    IF aReq.handler = "EnhancedAPIKeyAuth" /\ aReq.req.xApiKey = EmptyStr
       /\ HasPrefix(aReq.req.authorization, <<Bearer>>)
    THEN Tail(aReq.req.authorization)
    ELSE aReq.req.xApiKey

CarriesValidAPIKey ==
    /\ aReq.handler \in {"HybridAuth", "EnhancedAPIKeyAuth"}
    /\ \E row \in KeyRows : row.Key = PresentedAPIKey

PresentedKeyRow == CHOOSE row \in KeyRows : row.Key = PresentedAPIKey

\* ValidateTOTP was called for the request's code and accepted it
TOTPAccepted ==
    /\ \E i \in 1..Len(aResp.trace) : aResp.trace[i] = "ValidateTOTP"
    /\ PresentedKeyRow.TwoFA
    /\ aReq.req.xTotp = CurrentTOTP
    /\ ~aReq.env.totpErr

\* a valid API key, with an accepted TOTP code when the key has 2FA
\* enabled or require2FA is set
APIKeyCredentialsAccepted ==
    /\ CarriesValidAPIKey
    /\ (PresentedKeyRow.TwoFA \/ require2FA) => TOTPAccepted

IdentityKeys == {"user", "user_email", "api_key_id", "auth_method"}

\* C6: behind an identity gate the downstream handler runs only for a valid
\* session token, or for a valid API key together with an accepted TOTP code
\* when the key has 2FA enabled or require2FA is set; every other request is
\* answered 401 with the chain aborted; when the handler runs the identity
\* is already on the context.
C6_GateAdmitsOnlyAuthenticated ==
    GateServed =>
        /\ aResp.handlerRan => (CarriesValidSession \/ APIKeyCredentialsAccepted)
        /\ ~(CarriesValidSession \/ APIKeyCredentialsAccepted) =>
              (aResp.status = 401 /\ aResp.aborted /\ ~aResp.handlerRan)
        /\ aResp.handlerRan => IdentityKeys \subseteq DOMAIN aResp.ctx

HybridServed == aReq # None /\ aReq.handler = "HybridAuth"

APIKeyCalls == {"ValidateAPIKey", "IsTOTPEnabled", "ValidateTOTP"}

\* the same request without its session token
WithoutSession(req) == [req EXCEPT !.xSession = EmptyStr, !.authorization = EmptyStr]

\* C7: HybridAuth evaluates the session token first: a valid session token
\* is admitted as session_token with no API-key or TOTP validation, and an
\* invalid one is not rejected but decided on the API key (and TOTP) alone.
C7_SessionTokenPrecedence ==
    HybridServed =>
        /\ CarriesValidSession =>
              /\ aResp.handlerRan
              /\ aResp.ctx.auth_method = "session_token"
              /\ \A i \in 1..Len(aResp.trace) : aResp.trace[i] \notin APIKeyCalls
        /\ (SessionTokenOf(aReq.req) # EmptyStr /\ ~CarriesValidSession) =>
              LET alone == HybridAuth(WithoutSession(aReq.req), sessions, require2FA, aReq.env)
              IN  /\ aResp.status = alone.status
                  /\ aResp.handlerRan = alone.handlerRan
                  /\ aResp.error = alone.error
                  /\ aResp.handlerRan => aResp.ctx = alone.ctx

LoginServed == aReq # None /\ aReq.handler = "Login"

LoginKeyValid == \E row \in KeyRows : row.Key = aReq.req.apiKey

LoginTOTPValid ==
    /\ (CHOOSE row \in KeyRows : row.Key = aReq.req.apiKey).TwoFA
    /\ aReq.req.totpCode = CurrentTOTP
    /\ ~aReq.env.totpErr

LoginCalled(fn) == \E i \in 1..Len(aResp.trace) : aResp.trace[i] = fn

\* C8: Login calls GenerateSessionToken only after ValidateAPIKey and then
\* ValidateTOTP have accepted; an invalid key, an invalid code or a failing
\* TOTP validation is answered 401 without GenerateSessionToken, and a
\* login that fails leaves the sessions as they were.
C8_LoginValidatesBeforeSession ==
    LoginServed =>
        /\ LoginCalled("GenerateSessionToken") =>
              /\ aResp.trace = <<"ValidateAPIKey", "ValidateTOTP", "GenerateSessionToken">>
              /\ LoginKeyValid
              /\ LoginTOTPValid
        /\ (aReq.req.apiKey # EmptyStr /\ aReq.req.totpCode # EmptyStr
            /\ (~LoginKeyValid \/ ~LoginTOTPValid)) =>
              /\ aResp.status = 401
              /\ ~LoginCalled("GenerateSessionToken")
        /\ aResp.status # 200 => (sessions = aReq.before /\ aResp.token = EmptyStr)
        /\ aResp.status = 200 => (aResp.token \in TokensOf(sessions) \ TokensOf(aReq.before))

C8_Witness ==
    /\ LoginServed
    /\ LoginKeyValid
    /\ aReq.req.totpCode = CurrentTOTP
    /\ aReq.env.totpErr
    /\ aResp.status = 401
    /\ sessions = aReq.before

(***************************************************************************)
(* Fallback claims                                                         *)
(***************************************************************************)
ChatServed == rReq # None /\ rReq.handler = "ChatCompletions"

Min(a, b) == IF a <= b THEN a ELSE b

\* the provider is enabled, registered and has model info for the model
Available(model, name) ==
    /\ name \in rConfig.enabled
    /\ name \in rProviders
    /\ model \in DOMAIN ModelMappings
    /\ name \in DOMAIN ModelMappings[model].Providers

\* the fallback list without the primary provider
Candidates(primary) ==
    LET NotPrimary(name) == name # primary
    IN  SelectSeq(rConfig.fallback, NotPrimary)

\* the upstream call to the primary instance failed with UpstreamUnavailable
\* (network error, 5xx) or RateLimited (429)
PrimaryUpstreamFailed ==
    /\ ChatServed
    /\ rResp.invoked # << >>
    /\ rResp.invoked[1] = GetDefaultProvider(rReq.req.model)
    /\ rReq.req.upstream[rResp.invoked[1]] \in {"503", "429", "neterr"}

\* the fallback instances the retry may go to: the first maxAttempts
\* entries of the fallback list other than the primary
RetryCandidates ==
    LET cand == Candidates(GetDefaultProvider(rReq.req.model))
    IN  {cand[j] : j \in 1..Min(Len(cand), rConfig.maxAttempts)}

\* one of them is enabled, registered and serves the model
FallbackCandidateAvailable ==
    \E name \in RetryCandidates : Available(rReq.req.model, name)

\* one of them answers the request successfully
FallbackWouldSucceed ==
    \E name \in RetryCandidates :
        /\ Available(rReq.req.model, name)
        /\ ~Invoke(name, "/chat/completions", rReq.req.signErr, rReq.req.upstream[name]).err
        /\ rReq.req.bodyParses

\* C9: when the upstream call to the primary instance fails with a network
\* error, a 5xx or a 429 and routing.fallback.enabled is set, the request is
\* re-dispatched to a fallback instance among the first maxAttempts, and when
\* one of them answers successfully the caller gets a successful response
\* instead of the primary's error (stated for the configurations that also
\* set features.auto_fallback).
C9_FallbackOnUpstreamFailure ==
    (/\ PrimaryUpstreamFailed
     /\ rConfig.fallbackEnabled
     /\ rConfig.autoFallback
     /\ FallbackCandidateAvailable) =>
        /\ Len(rResp.invoked) > 1
        /\ rResp.invoked[2] \in RetryCandidates
        /\ FallbackWouldSucceed => rResp.status = 200

FallbackServed ==
    /\ rReq # None
    /\ rReq.handler = "RouteRequest"
    /\ rResp.fallbackCalled

\* C10: tryFallbackProviders never tries or returns the failed primary;
\* it tries the other candidates in configured order, stops at the first
\* available one, and tries at most maxAttempts of them, skipped entries
\* not counted; with maxAttempts = 0 it tries none and returns an error.
C10_FallbackResolution ==
    FallbackServed =>
        LET primary == rResp.exclude
            cand    == Candidates(primary)
            tried   == rResp.tried
            n       == Len(tried)
            model   == rReq.req.model
        IN  /\ primary \notin Range(tried)
            /\ rResp.provider # primary
            /\ n <= rConfig.maxAttempts
            /\ n <= Len(cand)
            /\ tried = SubSeq(cand, 1, n)
            /\ \A i \in 1..(n - 1) : ~Available(model, tried[i])
            /\ ~rResp.err =>
                  (n >= 1 /\ rResp.provider = tried[n] /\ Available(model, tried[n]))
            /\ rResp.err =>
                  /\ \A i \in 1..n : ~Available(model, tried[i])
                  /\ n = Min(Len(cand), rConfig.maxAttempts)
            /\ rConfig.maxAttempts = 0 => (tried = << >> /\ rResp.err)

C10_Witness ==
    /\ FallbackServed
    /\ Len(rConfig.fallback) = 3
    /\ rConfig.fallback[1] = rResp.exclude
    /\ rConfig.maxAttempts = 2
    /\ Len(rResp.tried) = 2
    /\ ~rResp.err

(***************************************************************************)
(* Routing claims                                                          *)
(***************************************************************************)
RouteServed == rReq # None /\ rReq.handler = "RouteRequest"

\* C11: after any sequence of RegisterProvider and UnregisterProvider calls
\* a provider RouteRequest returns is enabled in the configuration, present
\* in the registry and has model info for the requested model, on the
\* preferred, the default and the fallback path.
C11_RoutedProviderIsAvailable ==
    (RouteServed /\ ~rResp.err) =>
        /\ rResp.provider \in ProviderNames
        /\ Available(rReq.req.model, rResp.provider)
        /\ rResp.modelInfo = [Model |-> ModelMappings[rReq.req.model].Providers[rResp.provider]]

C11_Witness ==
    /\ RouteServed
    /\ rProviders # ProviderNames
    /\ rReq.req.preferred # ""
    /\ rReq.req.preferred \notin rProviders
    /\ GetDefaultProvider(rReq.req.model) \notin rProviders
    /\ rResp.fallbackCalled
    /\ ~rResp.err

(***************************************************************************)
(* Pattern routing claims                                                  *)
(***************************************************************************)
\* GetProviderForModel has been called while no explicit mapping is registered
PatternServed ==
    /\ mReq # None
    /\ mReq.method = "GetProviderForModel"
    /\ DOMAIN mrModelMap = {}

EndsAzure(model) ==
    HasSuffix(model, <<"-", "azure">>) \/ HasSuffix(model, <<"-", "deployment">>)

EndsAnthropic(model) == HasSuffix(model, <<"-", "anthropic">>)

\* C12: with no explicit mapping, a name ending in -azure or -deployment
\* resolves to azure, any other name ending in -anthropic to anthropic, a
\* name starting with cohere. to oracle unless it contains command-text
\* (then to bedrock), a name starting with claude- without those suffixes to
\* bedrock, and the five documented names resolve as documented.
C12_SuffixBeforePrefix ==
    PatternServed =>
        LET model == mReq.model
            plain == ~EndsAzure(model) /\ ~EndsAnthropic(model)
        IN  /\ EndsAzure(model) => mResp = "azure"
            /\ (~EndsAzure(model) /\ EndsAnthropic(model)) => mResp = "anthropic"
            /\ (plain /\ HasPrefix(model, <<"cohere", ".">>)) =>
                   mResp = IF Contains(model, <<"command", "-", "text">>)
                           THEN "bedrock" ELSE "oracle"
            /\ (plain /\ HasPrefix(model, <<"claude", "-">>)) => mResp = "bedrock"
            /\ model = Claude3Sonnet => mResp = "bedrock"
            /\ model = Claude3SonnetAnthropic => mResp = "anthropic"
            /\ model = CohereCommandRPlus => mResp = "oracle"
            /\ model = CohereCommandText => mResp = "bedrock"
            /\ model = Gpt4AzureDeployment => mResp = "azure"

\* C13: with no explicit mapping, a name that starts with gpt- resolves to
\* openai, one that starts with gemini- to vertex and one that starts with
\* ibm/ to ibm, unless it ends in -azure or -deployment (stated here for the
\* names that do not end in -anthropic either).
C13_PrefixFamilies ==
    (PatternServed /\ ~EndsAzure(mReq.model) /\ ~EndsAnthropic(mReq.model)) =>
        /\ HasPrefix(mReq.model, <<"gpt", "-">>) => mResp = "openai"
        /\ HasPrefix(mReq.model, <<"gemini", "-">>) => mResp = "vertex"
        /\ HasPrefix(mReq.model, <<"ibm", "/">>) => mResp = "ibm"

(***************************************************************************)
(* Storage path claims                                                     *)
(***************************************************************************)
PathServed(fn) == fReq # None /\ fReq.fn = fn

\* the storage types whose prefix /-T/ the path begins with
PrefixTypes(path) == { t \in StorageTypes : HasPrefix(path, <<"/", "-", t, "/">>) }

\* C14: ParseStoragePath reports a path as storage exactly when it begins
\* with /-T/ for one of the six storage types T, and then returns T and the
\* path segment after it as route; every other path yields ("", "", false).
\* For a storage path /-T/R/O/B/K ParseStorageOperation returns O, B and the
\* whole remainder K, and StorageHandler.Handle derives the same three from
\* that path.
C14_StoragePathParsing ==
    /\ PathServed("ParseStoragePath") =>
           IF PrefixTypes(fReq.path) = {}
           THEN fResp = [storageType |-> << >>, route |-> << >>, isStorage |-> FALSE]
           ELSE /\ fResp.isStorage
                /\ \E t \in PrefixTypes(fReq.path) :
                      /\ fResp.storageType = <<t>>
                      /\ ~Contains(fResp.route, <<"/">>)
                      /\ LET upToRoute == <<"/", "-", t, "/">> \o fResp.route
                         IN  \/ fReq.path = upToRoute
                             \/ HasPrefix(fReq.path, upToRoute \o <<"/">>)
    /\ (PathServed("ParseStorageOperation") /\ fReq.parts.type \in StorageTypes) =>
           /\ fResp.operation = fReq.parts.operation
           /\ fResp.bucket = fReq.parts.bucket
           /\ fResp.key = fReq.parts.key
           /\ HandlePath(fReq.path).ok
           /\ HandlePath(fReq.path).operation = fResp.operation
           /\ HandlePath(fReq.path).bucket = fResp.bucket
           /\ HandlePath(fReq.path).key = fResp.key

\* the key of a parsed storage path has inner slashes and ends with one
C14_Witness ==
    /\ PathServed("ParseStorageOperation")
    /\ fReq.parts.type \in StorageTypes
    /\ fReq.parts.key = <<"a", "/", "b", "/", "c", "/">>
    /\ fResp.key = fReq.parts.key

(***************************************************************************)
(* Translation claims                                                      *)
(***************************************************************************)
BedrockIDPrefixes == {"anthropic.", "amazon.", "meta.", "mistral."}

\* the name begins with the prefix of a full Bedrock model id
FullBedrockID(name) ==
    \E prefix \in BedrockIDPrefixes :
        Len(name) >= Len(prefix) /\ SubSeq(name, 1, Len(prefix)) = prefix

\* C15: a model name that is already a full Bedrock model id is accepted by
\* GetBedrockModelID and returned unchanged, and the translation of a
\* request naming it gives the path /model/<that id>/converse, no error.
C15_FullBedrockIDAccepted ==
    /\ (PathServed("GetBedrockModelID") /\ FullBedrockID(fReq.model)) =>
           fResp = [modelID |-> fReq.model, exists |-> TRUE]
    /\ (PathServed("TranslateOpenAIToConverseAPI") /\ FullBedrockID(fReq.model)
           /\ ~fReq.stream) =>
           /\ ~fResp.err
           /\ fResp.path = "/model/" \o fReq.model \o "/converse"

\* the content blocks of the response that was translated
RespBlocks ==
    IF fReq.converseResp.Message # None
    THEN fReq.converseResp.Message.val.Content ELSE << >>

HasText(block) == block.Text # None

HasToolUse(block) == block.ToolUse # None

RECURSIVE JoinTexts(_)
\* the texts of a sequence of text blocks, one after the other
JoinTexts(textBlocks) ==
    IF Len(textBlocks) = 0 THEN ""
    ELSE Head(textBlocks).Text.val \o JoinTexts(Tail(textBlocks))

\* one tool call per toolUse block, in order, with its id and name
ToolCallsFaithful ==
    LET uses == SelectSeq(RespBlocks, HasToolUse)
    IN  /\ Len(fResp.ToolCalls) = Len(uses)
        /\ \A i \in 1..Len(uses) :
              /\ fResp.ToolCalls[i].ID = uses[i].ToolUse.val.ToolUseId
              /\ fResp.ToolCalls[i].Name = uses[i].ToolUse.val.Name

\* C16 as stated: the message content is the concatenation of the text
\* blocks in order, and tool_calls has one entry per toolUse block in order
\* with the block's toolUseId and name.
C16_ContentIsConcatenation ==
    PathServed("TranslateConverseToOpenAI") =>
        /\ fResp.Content = Some(JoinTexts(SelectSeq(RespBlocks, HasText)))
        /\ ToolCallsFaithful

\* C16 amended: the message content is the concatenation of the text blocks
\* in order when that is not empty and is left unset (nil) when it is empty,
\* and tool_calls has one entry per toolUse block in order with the block's
\* toolUseId and name.
C16_ContentIsConcatenationOrNil ==
    PathServed("TranslateConverseToOpenAI") =>
        LET joined == JoinTexts(SelectSeq(RespBlocks, HasText))
        IN  /\ fResp.Content = IF joined = "" THEN None ELSE Some(joined)
            /\ ToolCallsFaithful

\* two texts around a tool use, then a second tool use
C16_Witness ==
    /\ PathServed("TranslateConverseToOpenAI")
    /\ Len(RespBlocks) = 3
    /\ RespBlocks[1].Text = Some("Hello") /\ RespBlocks[1].ToolUse # None
    /\ RespBlocks[2].Text = None /\ RespBlocks[2].ToolUse # None
    /\ RespBlocks[2].ToolUse # RespBlocks[1].ToolUse
    /\ RespBlocks[3].Text = Some(" world")
    /\ fResp.Content = Some("Hello world")
    /\ Len(fResp.ToolCalls) = 2

(***************************************************************************)
(* Provider dispatch claims                                                *)
(***************************************************************************)
\* a non-streaming chat completion whose route is the Azure provider
RoutedToAzure ==
    /\ ChatServed
    /\ rResp.route # None
    /\ ~rResp.route.err
    /\ rResp.route.provider = "azure"
    /\ ~rReq.req.stream

\* C17: a chat request routed to the Azure provider is sent to the Azure
\* deployment and the Azure response is what the caller gets: it is not
\* answered 400 for lack of a deployment id, and when Azure answers 200 with
\* a well-formed body the caller gets 200.
C17_AzureDispatched ==
    RoutedToAzure =>
        /\ rResp.status # 400
        /\ (rReq.req.upstream["azure"] = "200" /\ rReq.req.bodyParses) => rResp.status = 200

\* a non-streaming chat completion whose route is the Bedrock provider,
\* translated, with the signer failing
ProtocolSignFailure ==
    /\ ChatServed
    /\ rResp.route # None
    /\ ~rResp.route.err
    /\ rResp.route.provider = "bedrock"
    /\ ~rReq.req.stream
    /\ rResp.code # "translation_failed"
    /\ rReq.req.signErr

\* a request the transparent proxy accepted, with the signer failing
TransparentSignFailure ==
    /\ PathServed("BedrockProxy")
    /\ ~ValidateRequestFails(fReq.req)
    /\ fReq.signErr

\* C18: when signing the outgoing Bedrock request fails, the request is not
\* sent upstream and the client gets 500, on the protocol path and on the
\* transparent proxy path.
C18_SigningFailureIsFatal ==
    /\ ProtocolSignFailure => (~rResp.sent /\ rResp.status = 500)
    /\ TransparentSignFailure => (~fResp.sent /\ fResp.status = 500)

(***************************************************************************)
(* Document cache claims                                                   *)
(***************************************************************************)
\* the call has fetched the document over HTTP and has not cached it yet
HoldsFetched(c) == dcCalls[c].pc = "set"

\* C19: of the FetchDocument calls that run at the same time for one URL
\* missing from the cache, only one performs the HTTP fetch: no two of them
\* each hold a document they fetched themselves.
C19_SingleFetchPerURL ==
    \A c1, c2 \in Callers :
        (c1 # c2 /\ dcCalls[c1].url = dcCalls[c2].url) =>
            ~(HoldsFetched(c1) /\ HoldsFetched(c2))

\* C20: Get never returns a document whose entry has expired, and when Get
\* misses because the entry has expired the entry is gone from the cache
\* right after that Get: Size does not count it.
C20_ExpiredEntryEvictedOnGet ==
    dcLastGet # None =>
        /\ dcLastGet.expired => dcLastGet.doc = None
        /\ dcLastGet.expired =>
               /\ ~dcLastGet.cachedAfter
               /\ dcLastGet.sizeAfter = dcLastGet.sizeBefore - 1

(***************************************************************************)
(* Two-factor claims                                                       *)
(***************************************************************************)
\* the gate ran the downstream handler on the strength of the API key
AdmittedByAPIKey ==
    /\ aReq # None
    /\ aReq.handler \in {"HybridAuth", "EnhancedAPIKeyAuth"}
    /\ aResp.handlerRan
    /\ \E i \in 1..Len(aResp.trace) : aResp.trace[i] = "ValidateAPIKey"

\* C27: a key that has 2FA enabled is admitted through the API-key path of
\* EnhancedAPIKeyAuth or HybridAuth only with a TOTP code that ValidateTOTP
\* accepted, also when the IsTOTPEnabled lookup fails and require2FA is off.
C27_TwoFAKeyNeverAdmittedWithoutTOTP ==
    (AdmittedByAPIKey /\ CarriesValidAPIKey /\ PresentedKeyRow.TwoFA) => TOTPAccepted

(***************************************************************************)
(* Health recording claims                                                 *)
(***************************************************************************)
\* C28: a request through BedrockProxy.Handler that passes validation gives
\* the health checker exactly one outcome, RecordError when the final status
\* is 500 or above (a transport failure answered 502 included) and
\* RecordSuccess otherwise; a request refused by validation records none.
C28_OneHealthOutcomePerRequest ==
    PathServed("BedrockProxy") =>
        IF ValidateRequestFails(fReq.req)
        THEN fResp.health = << >>
        ELSE fResp.health =
                 << IF fResp.status >= 500 THEN "RecordError" ELSE "RecordSuccess" >>

(***************************************************************************)
(* Registration claims                                                     *)
(***************************************************************************)
ModelRouterServed(method) == mReq # None /\ mReq.method = method

\* C29: on a ModelRouter that started empty, every value of the model map
\* names a registered provider; a RegisterProvider under a name already
\* registered fails and keeps the provider registered first; a
\* RegisterModelMapping for an unregistered provider fails and leaves the
\* model map as it was; RouteModel on a model with an exact mapping returns
\* the provider registered under the mapped name with no error, whatever the
\* pattern rules say of the model.
C29_MappingsNameRegisteredProviders ==
    /\ \A m \in DOMAIN mrModelMap : mrModelMap[m] \in DOMAIN mrProviders
    /\ (ModelRouterServed("RegisterProvider")
            /\ mReq.provider.name \in DOMAIN mReq.providers) =>
           /\ mResp.err
           /\ mrProviders = mReq.providers
           /\ mrModelMap = mReq.modelMap
    /\ (ModelRouterServed("RegisterModelMapping")
            /\ mReq.providerName \notin DOMAIN mReq.providers) =>
           /\ mResp.err
           /\ mrModelMap = mReq.modelMap
           /\ mrProviders = mReq.providers
    /\ (ModelRouterServed("RouteModel") /\ mReq.model \in DOMAIN mrModelMap) =>
           /\ ~mResp.err
           /\ mResp.provider # None
           /\ mResp.provider = Some(mrProviders[mrModelMap[mReq.model]])
           /\ mResp.provider.val.name = mrModelMap[mReq.model]

\* gpt-4 is mapped to bedrock against its pattern (openai), both providers
\* are registered, and RouteModel was asked for gpt-4
C29_Witness ==
    /\ ModelRouterServed("RouteModel")
    /\ mReq.model = <<"gpt", "-", "4">>
    /\ mReq.model \in DOMAIN mrModelMap
    /\ mrModelMap[mReq.model] = "bedrock"
    /\ MatchModelPattern(mReq.model) = "openai"
    /\ DOMAIN mrProviders = {"bedrock", "openai"}
    /\ mResp.provider = Some(mrProviders["bedrock"])

(***************************************************************************)
(* Temperature claims                                                      *)
(***************************************************************************)
\* C30: for a protocol-mode chat request the temperature sent upstream is the
\* one the client supplied, 0 included; the default is sent only when the
\* client supplied none.
C30_ClientTemperatureForwarded ==
    PathServed("ChatTemperature") =>
        IF fReq.client # None
        THEN fResp.upstream = fReq.client
        ELSE fResp.upstream \in {None, Some(DefaultTemperature)}

(***************************************************************************)
(* Session lifecycle claims                                                *)
(***************************************************************************)
AuthServed(handler) == aReq # None /\ aReq.handler = handler

\* the token presented to Refresh or RevokeSession
PresentedToken == SessionTokenOf(aReq.req)

TokenValidates(sess, token) == ~ValidateSessionToken(sess, token).err

\* C24: once RevokeSession has answered 200 "Session revoked successfully"
\* for session id X, no session with id X is left to authenticate a request.
C24_RevokedSessionCannotAuthenticate ==
    (AuthServed("RevokeSession") /\ aResp.status = 200) =>
        \A x \in sessions : x.ID # aReq.id

\* C25: once Refresh has answered 200, the presented token no longer validates
\* and the returned token validates, bound to the API key id of the presented
\* one.
C25_RefreshRotatesToken ==
    (AuthServed("Refresh") /\ aResp.status = 200) =>
        /\ ~TokenValidates(sessions, PresentedToken)
        /\ TokenValidates(sessions, aResp.token)
        /\ ValidateSessionToken(sessions, aResp.token).apiKeyID
               = ValidateSessionToken(aReq.before, PresentedToken).apiKeyID

\* C26: a Refresh that answers 401 or 500 leaves the presented token valid
\* when it was valid before the call.
C26_FailedRefreshKeepsToken ==
    (AuthServed("Refresh") /\ aResp.status \in {401, 500}
        /\ TokenValidates(aReq.before, PresentedToken)) =>
        TokenValidates(sessions, PresentedToken)

(***************************************************************************)
(* Registry concurrency claims                                             *)
(***************************************************************************)
\* C23: a HealthCheck that runs while RegisterProvider or UnregisterProvider
\* change the registry observes one complete registry for its whole duration,
\* the one before the change or the one after it, and the providers map is
\* never read while it is written in place.
C23_RegistryObservedAtomically ==
    hcResp # None =>
        /\ ~hcResp.fatal
        /\ ~hcResp.mutated
        /\ hcResp.results \in { {n \in hcResp.old : IsProviderEnabled(rConfig, n)},
                                 {n \in hcResp.new : IsProviderEnabled(rConfig, n)} }

(***************************************************************************)
(* Credential engine claims                                                *)
(***************************************************************************)
\* the attempts follow the declared list and every attempt but the last failed
AttemptsInDeclaredOrder(inst, attempts) ==
    /\ Len(attempts) <= Len(DeclaredStrategies[inst])
    /\ \A i \in 1..Len(attempts) : attempts[i].strategy = DeclaredStrategies[inst][i]
    /\ \A i \in 1..(Len(attempts) - 1) : ~attempts[i].ok

AllStrategiesFailed(inst, attempts) ==
    /\ Len(attempts) = Len(DeclaredStrategies[inst])
    /\ \A i \in 1..Len(attempts) : ~attempts[i].ok

\* C21: for an instance with N declared strategies the engine attempts them
\* strictly in declared order, attempts strategy i+1 only after strategy i has
\* failed, attempts none after the first success, and returns
\* CredentialUnavailable (503) only when all N have failed.
C21_StrategiesInDeclaredOrder ==
    \A inst \in Instances :
        /\ crFlight[inst] # None =>
               AttemptsInDeclaredOrder(inst, crFlight[inst].attempts)
        /\ crLast[inst] # None =>
               /\ AttemptsInDeclaredOrder(inst, crLast[inst].attempts)
               /\ crLast[inst].result = CredentialUnavailable =>
                      AllStrategiesFailed(inst, crLast[inst].attempts)
               /\ crLast[inst].result = CredentialUnavailable =>
                      crLast[inst].result.code = 503

\* a refresh of bedrock_us1 ended at its third strategy: two failures, then a
\* success, and the fourth strategy was not attempted
C21_Witness ==
    /\ crLast["bedrock_us1"] # None
    /\ Len(crLast["bedrock_us1"].attempts) = 3
    /\ ~crLast["bedrock_us1"].attempts[2].ok
    /\ crLast["bedrock_us1"].attempts[3].ok
    /\ crLast["bedrock_us1"].attempts[3].strategy = "vault-sts"
    /\ crLast["bedrock_us1"].result.status = "ok"

CredWaiting(c) == crCalls[c].pc = "waiting"
CredServed(c) == crCalls[c].pc = "done"

\* C22: requests for the same instance that find no usable cached credential
\* share one refresh (the callers that wait for an instance all wait for the
\* one refresh in flight, and each gets the result of the refresh it waited
\* for); a request that finds the cached credential still within its expiry
\* starts no refresh and is served from the cache.
C22_SingleFlightRefresh ==
    /\ \A c \in CredCallers : CredWaiting(c) =>
           /\ crFlight[crCalls[c].call.inst] # None
           /\ crFlight[crCalls[c].call.inst].id = crCalls[c].flight
    /\ \A c, d \in CredCallers :
           (CredWaiting(c) /\ CredWaiting(d)
               /\ crCalls[c].call.inst = crCalls[d].call.inst) =>
               crCalls[c].flight = crCalls[d].flight
    /\ \A c \in CredCallers :
           (CredServed(c) /\ crCalls[c].servedBy = "refresh"
               /\ crLast[crCalls[c].call.inst] # None
               /\ crLast[crCalls[c].call.inst].id = crCalls[c].flight) =>
               crCalls[c].result = crLast[crCalls[c].call.inst].result
    /\ \A c \in CredCallers :
           (crCalls[c].pc # "idle" /\ crCalls[c].call.usable) =>
               /\ crCalls[c].servedBy = "cache"
               /\ crCalls[c].after = crCalls[c].call.before
               /\ crCalls[c].result.status = "ok"

\* two requests for bedrock_us1 found no usable credential, shared refresh 1
\* and both got the credential it produced; one refresh has run
C22_Witness ==
    /\ CredServed("r1") /\ CredServed("r2")
    /\ \A c \in CredCallers : crCalls[c].call.inst = "bedrock_us1"
    /\ \A c \in CredCallers : crCalls[c].servedBy = "refresh" /\ crCalls[c].flight = 1
    /\ \A c \in CredCallers : ~crCalls[c].call.usable
    /\ crCalls["r1"].result.status = "ok"
    /\ crCalls["r2"].result = crCalls["r1"].result
    /\ crLast["bedrock_us1"].result = crCalls["r1"].result
    /\ crRefreshes["bedrock_us1"] = 1

====
